---- MODULE Spec2Model ----
(***************************************************************************)
(* The TinyLoRa uplink path of lib/adafruit_tinylora/adafruit_tinylora.py: *)
(* frame assembly in send_data, the register/FIFO programming and the      *)
(* Standby -> Transmit -> Sleep sequence of send_packet, set_datarate and  *)
(* set_channel.  The driver is single-threaded; one call runs at a time.   *)
(* A call is split at the points where the environment is consulted (the   *)
(* random channel pick, each poll of the DIO0 pin and of the clock).       *)
(* `log' holds the bus transactions of the current (or last) call, in      *)
(* order, each as the bytes handed to the SPI device: two for a register   *)
(* write, one (the address) for a register read.  The constructor is       *)
(* modelled step by step in SpecCtor; Spec starts from a constructed       *)
(* driver.                                                                 *)
(***************************************************************************)
EXTENDS Integers, Sequences, FiniteSets, TLC

\* ------------------------------------------------------------- bounds
\* size of the small region table tried next to the 8-entry one
SmallTable == 2
\* largest timeout (in clock ticks) a caller passes
MaxTimeout == 2
\* largest advance of the monotonic clock between two polls
MaxTick == 1

\* -------------------------------------------------- program constants
MODE_SLEEP == 0
MODE_LORA == 128
MODE_STDBY == 1
MODE_TX == 131
REG_PA_CONFIG == 9
REG_PREAMBLE_MSB == 32
REG_PREAMBLE_LSB == 33
REG_FRF_MSB == 6
REG_FRF_MID == 7
REG_FRF_LSB == 8
REG_FEI_LSB == 30
REG_FEI_MSB == 29
REG_MODEM_CONFIG == 38
REG_PAYLOAD_LENGTH == 34
REG_FIFO_POINTER == 13
REG_FIFO_BASE_ADDR == 128
REG_OPERATING_MODE == 1
REG_PREAMBLE_DETECT == 31
REG_TIMER1_COEF == 57
REG_NODE_ADDR == 51
REG_IMAGE_CAL == 59
REG_RSSI_CONFIG == 14
REG_RSSI_COLLISION == 15
REG_DIO_MAPPING_1 == 64
REG_VERSION == 66
\* the version the constructor accepts
RFM_VERSION == 18
\* value written to put the radio in Standby (send_packet, first write)
STDBY_VALUE == 129
\* address of the FIFO data register (send_packet, FIFO loop)
REG_FIFO == 0
\* size of the packet buffer allocated by send_data
PKT_BUF_LEN == 64
\* randint(0, 7) of the multi-channel pick
RandLo == 0
RandHi == 7
\* Python's None for the optional integer fields
None == -1

Min(a, b) == IF a < b THEN a ELSE b
Max(a, b) == IF a > b THEN a ELSE b

\* ---------------------------------------------------- Python helpers
\* bytearray(n)
Zeros(n) == [i \in 1..n |-> 0]

\* seq[lo:hi]
PySlice(s, lo, hi) ==
    LET l == Min(lo, Len(s))
        h == Max(l, Min(hi, Len(s)))
    IN  SubSeq(s, l + 1, h)

\* buf[lo:hi] = src   (the slice is replaced; the buffer may shrink or grow)
PySliceAssign(buf, lo, hi, src) ==
    LET l == Min(lo, Len(buf))
        h == Max(l, Min(hi, Len(buf)))
    IN  SubSeq(buf, 1, l) \o src \o SubSeq(buf, h + 1, Len(buf))

\* a ^ b on non-negative integers
RECURSIVE Xor(_, _)
Xor(a, b) ==
    IF a = 0 THEN b
    ELSE IF b = 0 THEN a
    ELSE ((a + b) % 2) + 2 * Xor(a \div 2, b \div 2)

\* address | 0x80 for a one-byte address
SetWriteBit(address) == IF address % 256 >= 128 THEN address ELSE address + 128

\* address & 0x7F for a one-byte address
ClearWriteBit(address) == address % 128

\* TinyLoRa._BUFFER, the 2-byte buffer every register access goes through
VARIABLE BUFFER

\* _BUFFER after _write_u8 stored the address byte and the value in it
StoreWrite(buf, address, val) ==
    [ buf EXCEPT ![1] = SetWriteBit(address), ![2] = val ]

\* a _write_u8 that stores the value only and sends the buffer as it is
WriteU8_StaleAddress(address, val) ==
    SubSeq([ BUFFER EXCEPT ![2] = val ], 1, 2)

\* the bytes _write_u8(address, val) hands to the SPI device: _BUFFER[0:2]
WriteU8(address, val) == SubSeq(StoreWrite(BUFFER, address, val), 1, 2)

\* the bytes _read_into(address, ...) hands to the SPI device: _BUFFER[0:1]
ReadAddress(address) ==
    SubSeq([ BUFFER EXCEPT ![1] = ClearWriteBit(address) ], 1, 1)

\* _BUFFER after _read_u8 read `value' into its first byte
StoreRead(buf, value) == [ buf EXCEPT ![1] = value ]

\* _write_u8 can store val in the one-byte buffer
ByteOk(val) == val >= 0 /\ val <= 255

\* a run of _write_u8 calls in order, stopped by the first value that is no byte:
\* the transactions issued
RECURSIVE WritesDone(_)
WritesDone(pairs) ==
    IF pairs = << >> THEN << >>
    ELSE IF ~ByteOk(Head(pairs)[2]) THEN << >>
    ELSE << WriteU8(Head(pairs)[1], Head(pairs)[2]) >> \o WritesDone(Tail(pairs))

AllBytesOk(pairs) == \A i \in 1..Len(pairs) : ByteOk(pairs[i][2])

\* _BUFFER after a run of bus transactions: it holds the last one
LastTxn(buf, txns) ==
    IF txns = << >> THEN buf
    ELSE [ i \in 1..2 |-> IF i <= Len(txns[Len(txns)])
                          THEN txns[Len(txns)][i] ELSE buf[i] ]

\* _BUFFER after a run of _write_u8 calls; the write stopped by a value that
\* is no byte has stored its address already
BufferAfter(buf, pairs) ==
    IF AllBytesOk(pairs) THEN LastTxn(buf, WritesDone(pairs))
    ELSE [ LastTxn(buf, WritesDone(pairs)) EXCEPT
             ![1] = SetWriteBit(pairs[Len(WritesDone(pairs)) + 1][1]) ]

\* ------------------------------------------------------ static tables
\* data_rates of set_datarate: name -> (sf, bw, modemcfg)
data_rates ==
    [ n \in { "SF7BW125", "SF7BW250", "SF8BW125", "SF9BW125",
              "SF10BW125", "SF11BW125", "SF12BW125" } |->
        CASE n = "SF7BW125"  -> << 116, 114, 4 >>
          [] n = "SF7BW250"  -> << 116, 130, 4 >>
          [] n = "SF8BW125"  -> << 132, 114, 4 >>
          [] n = "SF9BW125"  -> << 148, 114, 4 >>
          [] n = "SF10BW125" -> << 164, 114, 4 >>
          [] n = "SF11BW125" -> << 180, 114, 12 >>
          [] n = "SF12BW125" -> << 196, 114, 12 >> ]

\* the (register, value) pairs __init__ writes to set the radio up for LoRa
InitPairs ==
    << << REG_OPERATING_MODE, MODE_SLEEP >>,
       << REG_OPERATING_MODE, MODE_LORA >>,
       << REG_PA_CONFIG, 255 >>,
       << REG_PREAMBLE_DETECT, 37 >>,
       << REG_PREAMBLE_MSB, 0 >>,
       << REG_PREAMBLE_LSB, 8 >>,
       << REG_MODEM_CONFIG, 12 >>,
       << REG_TIMER1_COEF, 52 >>,
       << REG_NODE_ADDR, 39 >>,
       << REG_IMAGE_CAL, 29 >>,
       << REG_RSSI_CONFIG, 128 >>,
       << REG_RSSI_COLLISION, 0 >> >>

\* A region's TTN_FREQS table with n channels: n distinct register triples
\* (the ttn_<region> modules; index i of the code is entry i + 1 here).
TTN_FREQS(n) == [ i \in 1..n |-> << 225 + (i \div 5), 10 + 13 * i, 192 - i >> ]

\* ---------------------------------------------- AES (encryption module)
\* Byte j of the block cipher's output E_key(block): 16 bytes in, 16 out.
BlockCipherByte(key, block, j) ==
    ( block[1] + 3 * block[7] + 5 * block[8] + 7 * block[9] + 11 * block[10]
      + 13 * block[11] + 17 * block[12] + 19 * block[16]
      + 29 * j + key[j] + block[j] ) % 256

\* The block A_i of the payload cipher
BlockA(dev_addr, frame_counter, i) ==
    << 1, 0, 0, 0, 0, 0,
       dev_addr[4], dev_addr[3], dev_addr[2], dev_addr[1],
       frame_counter % 256, (frame_counter \div 256) % 256, 0, 0,
       0, i >>

\* AES.encrypt: the payload xor-ed with the keystream blocks S_i = E_appkey(A_i)
Encrypt(data, dev_addr, app_key, frame_counter) ==
    [ k \in 1..Len(data) |->
        Xor(data[k],
            BlockCipherByte(app_key,
                            BlockA(dev_addr, frame_counter, ((k - 1) \div 16) + 1),
                            ((k - 1) % 16) + 1)) ]

\* The block B_0 of the integrity code
BlockB(dev_addr, frame_counter, length) ==
    << 73, 0, 0, 0, 0, 0,
       dev_addr[4], dev_addr[3], dev_addr[2], dev_addr[1],
       frame_counter % 256, (frame_counter \div 256) % 256, 0, 0,
       0, length % 256 >>

\* position-weighted sum of bytes lo..hi of msg
RECURSIVE WeightedSum(_, _, _)
WeightedSum(msg, lo, hi) ==
    IF lo > hi THEN 0
    ELSE IF lo = hi THEN (lo * msg[lo]) % 65536
    ELSE ( WeightedSum(msg, lo, (lo + hi) \div 2)
           + WeightedSum(msg, ((lo + hi) \div 2) + 1, hi) ) % 65536

\* AES.calculate_mic: 4 bytes computed from B_0, the first `length' bytes of
\* the packet and the network key
CalculateMic(lora_packet, length, dev_addr, net_key, frame_counter) ==
    LET msg == BlockB(dev_addr, frame_counter, length)
               \o PySlice(lora_packet, 0, length)
        sum == WeightedSum(msg, 1, Len(msg))
    IN  [ k \in 1..4 |-> (sum * (2 * k + 1) + 31 * k + net_key[k]) % 256 ]

\* ------------------------------------------------------------ send_data
\* a header with the device address in stored order
Header_AddrInOrder(dev_addr, frame_counter) ==
    << REG_DIO_MAPPING_1,
       dev_addr[1], dev_addr[2], dev_addr[3], dev_addr[4],
       0,
       frame_counter % 256,
       (frame_counter \div 256) % 256,
       1 >>

\* a header whose second counter byte is not cut to 8 bits
Header_CounterHighUnmasked(dev_addr, frame_counter) ==
    << REG_DIO_MAPPING_1,
       dev_addr[4], dev_addr[3], dev_addr[2], dev_addr[1],
       0,
       frame_counter % 256,
       frame_counter \div 256,
       1 >>

\* a header with port 0
Header_PortZero(dev_addr, frame_counter) ==
    << REG_DIO_MAPPING_1,
       dev_addr[4], dev_addr[3], dev_addr[2], dev_addr[1],
       0,
       frame_counter % 256,
       (frame_counter \div 256) % 256,
       0 >>

\* The header bytes lora_pkt[0..8] written by send_data into bytearray(64)
Header(dev_addr, frame_counter) ==
    << REG_DIO_MAPPING_1,
       dev_addr[4], dev_addr[3], dev_addr[2], dev_addr[1],
       0,
       frame_counter % 256,
       (frame_counter \div 256) % 256,
       1 >>

\* a frame that carries the payload as it was passed, not encrypted
BuildFrame_PlainPayload(data, data_length, frame_counter, cfg) ==
    LET enc0 == PySliceAssign(Zeros(data_length), 0, data_length,
                              PySlice(data, 0, data_length))
        enc  == enc0
        pkt0 == PySliceAssign(Zeros(PKT_BUF_LEN), 0, 9,
                              Header(cfg.dev_addr, frame_counter))
        pkt1 == PySliceAssign(pkt0, 9, 9 + data_length,
                              PySlice(enc, 0, data_length))
        len1 == 9 + data_length
        mic  == CalculateMic(pkt1, len1, cfg.dev_addr, cfg.net_key,
                             frame_counter)
        pkt2 == PySliceAssign(pkt1, len1, len1 + 4, PySlice(mic, 0, 4))
    IN  [ pkt |-> pkt2, len |-> len1 + 4 ]

\* a frame whose length leaves the 4 bytes of the integrity code out
BuildFrame_LenWithoutMic(data, data_length, frame_counter, cfg) ==
    LET enc0 == PySliceAssign(Zeros(data_length), 0, data_length,
                              PySlice(data, 0, data_length))
        enc  == Encrypt(enc0, cfg.dev_addr, cfg.app_key, frame_counter)
        pkt0 == PySliceAssign(Zeros(PKT_BUF_LEN), 0, 9,
                              Header(cfg.dev_addr, frame_counter))
        pkt1 == PySliceAssign(pkt0, 9, 9 + data_length,
                              PySlice(enc, 0, data_length))
        len1 == 9 + data_length
        mic  == CalculateMic(pkt1, len1, cfg.dev_addr, cfg.net_key,
                             frame_counter)
        pkt2 == PySliceAssign(pkt1, len1, len1 + 4, PySlice(mic, 0, 4))
    IN  [ pkt |-> pkt2, len |-> len1 ]

\* a frame whose integrity code is computed before the payload is loaded
BuildFrame_MicBeforePayload(data, data_length, frame_counter, cfg) ==
    LET enc0 == PySliceAssign(Zeros(data_length), 0, data_length,
                              PySlice(data, 0, data_length))
        enc  == Encrypt(enc0, cfg.dev_addr, cfg.app_key, frame_counter)
        pkt0 == PySliceAssign(Zeros(PKT_BUF_LEN), 0, 9,
                              Header(cfg.dev_addr, frame_counter))
        len1 == 9 + data_length
        mic  == CalculateMic(pkt0, len1, cfg.dev_addr, cfg.net_key,
                             frame_counter)
        pkt1 == PySliceAssign(pkt0, 9, 9 + data_length,
                              PySlice(enc, 0, data_length))
        pkt2 == PySliceAssign(pkt1, len1, len1 + 4, PySlice(mic, 0, 4))
    IN  [ pkt |-> pkt2, len |-> len1 + 4 ]

\* lora_pkt and lora_pkt_len as send_data hands them to send_packet
BuildFrame(data, data_length, frame_counter, cfg) ==
    LET enc0 == PySliceAssign(Zeros(data_length), 0, data_length,
                              PySlice(data, 0, data_length))
        enc  == Encrypt(enc0, cfg.dev_addr, cfg.app_key, frame_counter)
        pkt0 == PySliceAssign(Zeros(PKT_BUF_LEN), 0, 9,
                              Header(cfg.dev_addr, frame_counter))
        pkt1 == PySliceAssign(pkt0, 9, 9 + data_length,
                              PySlice(enc, 0, data_length))
        len1 == 9 + data_length
        mic  == CalculateMic(pkt1, len1, cfg.dev_addr, cfg.net_key,
                             frame_counter)
        pkt2 == PySliceAssign(pkt1, len1, len1 + 4, PySlice(mic, 0, 4))
    IN  [ pkt |-> pkt2, len |-> len1 + 4 ]


\* ------------------------------------------------------------- inputs
\* longest payload a caller passes
MaxPayload == 52

Payload(n) == [ i \in 1..n |-> i ]

\* (data, data_length) pairs passed to send_data: the whole payload for
\* lengths 0, 2 and the two around the 64-byte buffer, and a length one
\* beyond the payload
SendArgs ==
    { [ data |-> Payload(n), data_length |-> n ] :
          n \in { 0, 2, MaxPayload - 1, MaxPayload } }
    \cup { [ data |-> Payload(2), data_length |-> 3 ] }

Timeouts == { 0, MaxTimeout }
\* the port the caller wants the frame to carry (send_data has no such parameter)
Ports == { 1, 2 }

\* the send_data calls tried: (data, data_length), frame_counter, timeout, port
SendCalls ==
    { << a, 258, MaxTimeout, 1 >> : a \in SendArgs }
    \cup { << [ data |-> Payload(2), data_length |-> 2 ], 258, t, 1 >> :
              t \in Timeouts }

\* the send_data calls tried for the frame alone: more lengths, the frame
\* counters around the byte and 16-bit boundaries, both ports
FrameArgs ==
    SendArgs \cup { [ data |-> Payload(n), data_length |-> n ] : n \in { 1, 17 } }
             \cup { [ data |-> Payload(3), data_length |-> 2 ] }
FrameCounters == { 0, 5, 255, 256, 258, 65535, 65536, 65541, 131077 }
FrameCalls ==
    { << a, fc, MaxTimeout, p >> :
          a \in FrameArgs, fc \in FrameCounters, p \in Ports }

DatarateArgs == { "SF7BW125", "SF12BW125", "SF99BW999" }
ChannelArgs == { 0, RandHi }
\* the outcomes of a send's randint(0, 7) tried: both ends and one more
Picks == { RandLo, RandLo + 1, RandHi }
ZeroKey == Zeros(16)

\* ttn_config.country, a string, as the sequence of its characters
US == << "U", "S" >>
AS == << "A", "S" >>
AU == << "A", "U" >>
EU == << "E", "U" >>
CN == << "C", "N" >>

\* sub in s   (Python's substring test on strings)
Contains(sub, s) ==
    \E i \in 0..(Len(s) - Len(sub)) : SubSeq(s, i + 1, i + Len(sub)) = sub

\* the region chain of __init__: the ttn_<region> module whose TTN_FREQS is
\* taken, "none" when the else branch raises
Region(country) ==
    IF Contains(US, country) THEN "usa"
    ELSE IF country = AS THEN "as"
    ELSE IF country = AU THEN "au"
    ELSE IF country = EU THEN "eu"
    ELSE IF country = CN THEN "cn"
    ELSE "none"

\* the region tags tried: the five of the chain, tags that contain one of
\* them, a lower-case one, an unknown one and the empty string
Countries ==
    { US, AS, AU, EU, CN,
      << "U", "S", "A" >>, << "A", "U", "S" >>, << "E", "U", "R" >>,
      << "X", "C", "N" >>, << "u", "s" >>, << "X", "X" >>, << >> }

\* what the version register reads
Versions == { RFM_VERSION, RFM_VERSION - 1, 0 }

\* the constructions tried: device address, region table size, channel
CtorArgs ==
    { [ dev_addr |-> << 0, 17, 34, 51 >>, n |-> RandHi + 1, channel |-> None ],
      [ dev_addr |-> << 38, 1, 27, 218 >>, n |-> SmallTable, channel |-> None ],
      [ dev_addr |-> << 38, 1, 27, 218 >>, n |-> RandHi + 1, channel |-> 0 ],
      [ dev_addr |-> << 0, 17, 34, 51 >>, n |-> RandHi + 1, channel |-> RandHi ] }

\* -------------------------------------------------------------- state
VARIABLES
    ttn_config,     \* TTN: dev_addr, net_key, app_key
    frequencies,    \* self._frequencies, the region's table
    channel,        \* self._channel (None: multi-channel mode)
    tx_random,      \* self._tx_random
    rfm_msb, rfm_mid, rfm_lsb,   \* self._rfm_msb, _rfm_mid, _rfm_lsb
    sf, bw, modemcfg,            \* self._sf, _bw, _modemcfg
    frame_counter,  \* self.frame_counter
    reg_opmode,     \* the radio's operating-mode register (last value written)
    pc,             \* position of the running call ("idle": none is running)
    op,             \* the running call, or the last one when idle
    result,         \* how the last call ended: "ok" or the error raised
    args,           \* arguments of the running send_data
    lora_pkt,       \* lora_packet of send_packet
    packet_length,  \* packet_length of send_packet
    timed_out,      \* timed_out of send_packet
    elapsed,        \* time.monotonic() - start as last read
    irq_seen,       \* a poll of this send read the DIO0 pin asserted
    log,            \* bus transactions of the running (last) call
    pre,            \* configuration when the running (last) call started
    prev,           \* op, result and pre of the call before
    ctor,           \* arguments and environment of the constructor call
    last_datarate,  \* name passed to the last set_datarate that succeeded
    last_channel,   \* index passed to the last set_channel call if it was
                    \* in the table, None if it was not (or none was made)
    label,          \* a ScrollingLabel: its fields and the text it displays
    label_call,     \* the last call made on the label
    mpu,            \* an MPU6050: the device's registers, the driver's
                    \* cached scale and the position of the running call
    mpu_call        \* the last call made on the MPU6050 driver

vars == << ttn_config, frequencies, channel, tx_random, rfm_msb, rfm_mid,
           rfm_lsb, sf, bw, modemcfg, frame_counter, reg_opmode, pc, op,
           result, args, lora_pkt, packet_length, timed_out, elapsed,
           irq_seen, log, pre, prev, ctor, last_datarate, last_channel,
           BUFFER, label, label_call, mpu, mpu_call >>

\* the radio driver and what is remembered of its calls
radio == << ttn_config, frequencies, channel, tx_random, rfm_msb, rfm_mid,
            rfm_lsb, sf, bw, modemcfg, frame_counter, reg_opmode, pc, op,
            result, args, lora_pkt, packet_length, timed_out, elapsed,
            irq_seen, log, pre, prev, ctor, last_datarate, last_channel,
            BUFFER >>

\* the display label and the motion sensor
others == << label, label_call, mpu, mpu_call >>

\* no label and no sensor driver has been constructed
NoOthers ==
    /\ label = [ op |-> "none" ]
    /\ label_call = [ op |-> "none" ]
    /\ mpu = [ pc |-> "none" ]
    /\ mpu_call = [ op |-> "none" ]

driver == << ttn_config, frequencies, channel, tx_random, rfm_msb, rfm_mid,
             rfm_lsb, sf, bw, modemcfg, frame_counter >>

\* the driver's configuration fields
Config ==
    [ channel |-> channel,
      rfm |-> << rfm_msb, rfm_mid, rfm_lsb >>,
      dr |-> << sf, bw, modemcfg >>,
      frame_counter |-> frame_counter ]

\* what the calls made so far are remembered by
hist == << ctor, last_datarate, last_channel >>

NoTriple == << None, None, None >>
NoPrev == [ op |-> "other", result |-> "ok", dr |-> NoTriple ]

NoArgs == [ data |-> << >>, data_length |-> 0, frame_counter |-> 0,
            timeout |-> 0, port |-> 1, datarate |-> "", channel |-> None ]

\* the last value written to the operating-mode register by a run of writes
RECURSIVE LastMode(_, _)
LastMode(w, old) ==
    IF w = << >> THEN old
    ELSE IF w[Len(w)][1] = SetWriteBit(REG_OPERATING_MODE) THEN w[Len(w)][2]
    ELSE LastMode(SubSeq(w, 1, Len(w) - 1), old)

\* The state a successful TinyLoRa(spi, cs, irq, rst, ttn_config, channel)
\* leaves: version 18 read, region recognised, channel (if any) in the table.
Init ==
    \E k \in CtorArgs, r \in { RandLo, RandHi } :
        /\ k.channel /= None => k.channel < k.n
        /\ BUFFER = StoreWrite(Zeros(2), InitPairs[Len(InitPairs)][1],
                               InitPairs[Len(InitPairs)][2])
        /\ ctor = [ version |-> RFM_VERSION, country |-> US, n |-> k.n,
                    channel |-> k.channel, dev_addr |-> k.dev_addr ]
        /\ last_datarate = "SF7BW125"
        /\ last_channel = k.channel
        /\ ttn_config = [ dev_addr |-> k.dev_addr, net_key |-> ZeroKey,
                          app_key |-> ZeroKey ]
        /\ frequencies = TTN_FREQS(k.n)
        /\ channel = k.channel
        /\ tx_random = r
        /\ rfm_msb = IF k.channel = None THEN None
                     ELSE TTN_FREQS(k.n)[k.channel + 1][1]
        /\ rfm_mid = IF k.channel = None THEN None
                     ELSE TTN_FREQS(k.n)[k.channel + 1][2]
        /\ rfm_lsb = IF k.channel = None THEN None
                     ELSE TTN_FREQS(k.n)[k.channel + 1][3]
        /\ sf = data_rates["SF7BW125"][1]
        /\ bw = data_rates["SF7BW125"][2]
        /\ modemcfg = data_rates["SF7BW125"][3]
        /\ frame_counter = 0
        /\ reg_opmode = LastMode(WritesDone(InitPairs), MODE_SLEEP)
        /\ pc = "idle"
        /\ op = "init"
        /\ result = "ok"
        /\ args = NoArgs
        /\ lora_pkt = << >>
        /\ packet_length = 0
        /\ timed_out = FALSE
        /\ elapsed = 0
        /\ irq_seen = FALSE
        /\ log = << ReadAddress(REG_VERSION) >> \o WritesDone(InitPairs)
        /\ pre = [ channel |-> k.channel,
                   rfm |-> << None, None, None >>,
                   dr |-> << None, None, None >>,
                   frame_counter |-> 0 ]
        /\ prev = NoPrev

\* What every call does to the history variables when it starts.  Of the
\* call before, a send that timed out and a set_datarate that failed are
\* remembered, the latter with the data-rate triple it found.
Begin(name) ==
    /\ pc = "idle"
    /\ UNCHANGED others
    /\ op' = name
    /\ prev' = IF op = "send_data" /\ result = "SendTimeout"
               THEN [ op |-> op, result |-> result, dr |-> NoTriple ]
               ELSE IF op = "set_datarate" /\ result = "KeyError"
               THEN [ op |-> op, result |-> result, dr |-> pre.dr ]
               ELSE NoPrev
    /\ pre' = Config

\* a call other than send_data leaves nothing of the last send's locals
NoSend(a) ==
    /\ args' = a
    /\ lora_pkt' = << >>
    /\ packet_length' = 0
    /\ timed_out' = FALSE
    /\ elapsed' = 0
    /\ irq_seen' = FALSE

\* ------------------------------------------------------- set_datarate
\* set_datarate that clears the three fields before it looks the name up
SetDatarate_ClearsFirst(datarate) ==
    /\ Begin("set_datarate")
    /\ log' = << >>
    /\ IF datarate \in DOMAIN data_rates
       THEN /\ sf' = data_rates[datarate][1]
            /\ bw' = data_rates[datarate][2]
            /\ modemcfg' = data_rates[datarate][3]
            /\ last_datarate' = datarate
            /\ result' = "ok"
       ELSE /\ sf' = None
            /\ bw' = None
            /\ modemcfg' = None
            /\ UNCHANGED last_datarate
            /\ result' = "KeyError"
    /\ NoSend([ NoArgs EXCEPT !.datarate = datarate ])
    /\ UNCHANGED << ttn_config, frequencies, channel, tx_random, rfm_msb,
                    rfm_mid, rfm_lsb, frame_counter, reg_opmode, pc, ctor,
                    last_channel, BUFFER >>

SetDatarate(datarate) ==
    /\ Begin("set_datarate")
    /\ log' = << >>
    /\ IF datarate \in DOMAIN data_rates
       THEN /\ sf' = data_rates[datarate][1]
            /\ bw' = data_rates[datarate][2]
            /\ modemcfg' = data_rates[datarate][3]
            /\ last_datarate' = datarate
            /\ result' = "ok"
       ELSE /\ UNCHANGED << sf, bw, modemcfg, last_datarate >>
            /\ result' = "KeyError"
    /\ NoSend([ NoArgs EXCEPT !.datarate = datarate ])
    /\ UNCHANGED << ttn_config, frequencies, channel, tx_random, rfm_msb,
                    rfm_mid, rfm_lsb, frame_counter, reg_opmode, pc, ctor,
                    last_channel, BUFFER >>

\* -------------------------------------------------------- set_channel
\* a set_channel that takes only the first byte of the table entry
SetChannel_MsbOnly(ch) ==
    /\ Begin("set_channel")
    /\ log' = << >>
    /\ IF ch < Len(frequencies)
       THEN /\ rfm_msb' = frequencies[ch + 1][1]
            /\ UNCHANGED << rfm_mid, rfm_lsb >>
            /\ last_channel' = ch
            /\ result' = "ok"
       ELSE /\ UNCHANGED << rfm_msb, rfm_mid, rfm_lsb >>
            /\ last_channel' = None
            /\ result' = "IndexError"
    /\ NoSend([ NoArgs EXCEPT !.channel = ch ])
    /\ UNCHANGED << ttn_config, frequencies, channel, tx_random, sf, bw,
                    modemcfg, frame_counter, reg_opmode, pc, ctor,
                    last_datarate, BUFFER >>

SetChannel(ch) ==
    /\ Begin("set_channel")
    /\ log' = << >>
    /\ IF ch < Len(frequencies)
       THEN /\ rfm_msb' = frequencies[ch + 1][1]
            /\ rfm_mid' = frequencies[ch + 1][2]
            /\ rfm_lsb' = frequencies[ch + 1][3]
            /\ last_channel' = ch
            /\ result' = "ok"
       ELSE /\ UNCHANGED << rfm_msb, rfm_mid, rfm_lsb >>
            /\ last_channel' = None
            /\ result' = "IndexError"
    /\ NoSend([ NoArgs EXCEPT !.channel = ch ])
    /\ UNCHANGED << ttn_config, frequencies, channel, tx_random, sf, bw,
                    modemcfg, frame_counter, reg_opmode, pc, ctor,
                    last_datarate, BUFFER >>

\* ----------------------------------------------------------- __init__
\* the constructor calls tried: what the version register reads, the region
\* tag, the size of the region's table and the channel argument
CtorCalls ==
    { [ version |-> v, country |-> c, n |-> n, channel |-> ch,
        dev_addr |-> << 38, 1, 27, 218 >> ] :
          v \in Versions, c \in Countries, n \in { SmallTable, RandHi + 1 },
          ch \in { None, 0, SmallTable, RandHi } }

\* _BUFFER is a class attribute: bytearray(2), or what a driver constructed
\* before left in it
Buffers == { Zeros(2), << 255, 255 >> }

\* Before __init__ runs: no field is set, no transaction was issued.
NewDriver ==
    /\ BUFFER \in Buffers
    /\ ctor = [ version |-> None, country |-> << >>, n |-> 0,
                channel |-> None, dev_addr |-> << >> ]
    /\ last_datarate = ""
    /\ last_channel = None
    /\ ttn_config = [ dev_addr |-> << >>, net_key |-> ZeroKey,
                      app_key |-> ZeroKey ]
    /\ frequencies = << >>
    /\ channel = None
    /\ tx_random = None
    /\ rfm_msb = None
    /\ rfm_mid = None
    /\ rfm_lsb = None
    /\ sf = None
    /\ bw = None
    /\ modemcfg = None
    /\ frame_counter = None
    /\ reg_opmode = MODE_STDBY
    /\ pc = "new"
    /\ op = "init"
    /\ result = "ok"
    /\ args = NoArgs
    /\ lora_pkt = << >>
    /\ packet_length = 0
    /\ timed_out = FALSE
    /\ elapsed = 0
    /\ irq_seen = FALSE
    /\ log = << >>
    /\ pre = [ channel |-> None, rfm |-> NoTriple, dr |-> NoTriple,
               frame_counter |-> 0 ]
    /\ prev = NoPrev

\* the constructor ends with an error: no driver object is returned
Fail(err) ==
    /\ pc' = "failed"
    /\ result' = err

\* __init__ up to the version check: the pins are set up, the radio is
\* reset and the version register is read
CtorVersion(k) ==
    /\ pc = "new"
    /\ UNCHANGED others
    /\ ctor' = k
    /\ pre' = [ pre EXCEPT !.channel = k.channel ]
    /\ log' = << ReadAddress(REG_VERSION) >>
    /\ BUFFER' = StoreRead(StoreRead(BUFFER, ClearWriteBit(REG_VERSION)),
                           k.version)
    /\ IF k.version /= RFM_VERSION
       THEN Fail("DeviceNotDetected")
       ELSE pc' = "region" /\ UNCHANGED result
    /\ UNCHANGED << driver, last_datarate, last_channel, reg_opmode, op,
                    args, lora_pkt, packet_length, timed_out, elapsed,
                    irq_seen, prev >>

\* a constructor that sets the radio up before it looks at the region tag
CtorRegion_SetupFirst ==
    /\ pc = "region"
    /\ UNCHANGED others
    /\ sf' = data_rates["SF7BW125"][1]
    /\ bw' = data_rates["SF7BW125"][2]
    /\ modemcfg' = data_rates["SF7BW125"][3]
    /\ last_datarate' = "SF7BW125"
    /\ log' = log \o WritesDone(InitPairs)
    /\ IF Region(ctor.country) = "none"
       THEN /\ Fail("UnsupportedRegion")
            /\ UNCHANGED << frequencies, channel, tx_random, rfm_msb,
                            rfm_mid, rfm_lsb, last_channel >>
       ELSE /\ frequencies' = TTN_FREQS(ctor.n)
            /\ channel' = ctor.channel
            /\ \E r \in RandLo..RandHi : tx_random' = r
            /\ IF ctor.channel = None
               THEN /\ pc' = "setup"
                    /\ UNCHANGED << rfm_msb, rfm_mid, rfm_lsb, last_channel,
                                    result >>
               ELSE IF ctor.channel < ctor.n
               THEN /\ rfm_msb' = TTN_FREQS(ctor.n)[ctor.channel + 1][1]
                    /\ rfm_mid' = TTN_FREQS(ctor.n)[ctor.channel + 1][2]
                    /\ rfm_lsb' = TTN_FREQS(ctor.n)[ctor.channel + 1][3]
                    /\ last_channel' = ctor.channel
                    /\ pc' = "setup"
                    /\ UNCHANGED result
               ELSE /\ Fail("IndexError")
                    /\ UNCHANGED << rfm_msb, rfm_mid, rfm_lsb, last_channel >>
    /\ UNCHANGED << ttn_config, frame_counter, reg_opmode, op, args,
                    lora_pkt, packet_length, timed_out, elapsed, irq_seen,
                    pre, prev, ctor, BUFFER >>

\* __init__ from the version check to the baseline writes: the fields are
\* cleared, set_datarate("SF7BW125") is called, the region's table is
\* chosen, the channel is stored and, when one was given, set
CtorRegion ==
    /\ pc = "region"
    /\ UNCHANGED others
    /\ sf' = data_rates["SF7BW125"][1]
    /\ bw' = data_rates["SF7BW125"][2]
    /\ modemcfg' = data_rates["SF7BW125"][3]
    /\ last_datarate' = "SF7BW125"
    /\ IF Region(ctor.country) = "none"
       THEN /\ Fail("UnsupportedRegion")
            /\ UNCHANGED << frequencies, channel, tx_random, rfm_msb,
                            rfm_mid, rfm_lsb, last_channel >>
       ELSE /\ frequencies' = TTN_FREQS(ctor.n)
            /\ channel' = ctor.channel
            /\ \E r \in RandLo..RandHi : tx_random' = r
            /\ IF ctor.channel = None
               THEN /\ pc' = "setup"
                    /\ UNCHANGED << rfm_msb, rfm_mid, rfm_lsb, last_channel,
                                    result >>
               ELSE IF ctor.channel < ctor.n
               THEN /\ rfm_msb' = TTN_FREQS(ctor.n)[ctor.channel + 1][1]
                    /\ rfm_mid' = TTN_FREQS(ctor.n)[ctor.channel + 1][2]
                    /\ rfm_lsb' = TTN_FREQS(ctor.n)[ctor.channel + 1][3]
                    /\ last_channel' = ctor.channel
                    /\ pc' = "setup"
                    /\ UNCHANGED result
               ELSE /\ Fail("IndexError")
                    /\ UNCHANGED << rfm_msb, rfm_mid, rfm_lsb, last_channel >>
    /\ UNCHANGED << ttn_config, frame_counter, reg_opmode, op, args,
                    lora_pkt, packet_length, timed_out, elapsed, irq_seen,
                    log, pre, prev, ctor, BUFFER >>

\* the rest of __init__: the frame counter is zeroed, the twelve baseline
\* registers are written and the TTN configuration is stored
CtorSetup ==
    /\ pc = "setup"
    /\ UNCHANGED others
    /\ frame_counter' = 0
    /\ log' = log \o WritesDone(InitPairs)
    /\ BUFFER' = BufferAfter(BUFFER, InitPairs)
    /\ reg_opmode' = LastMode(WritesDone(InitPairs), reg_opmode)
    /\ ttn_config' = [ dev_addr |-> ctor.dev_addr, net_key |-> ZeroKey,
                       app_key |-> ZeroKey ]
    /\ pc' = "idle"
    /\ UNCHANGED << frequencies, channel, tx_random, rfm_msb, rfm_mid,
                    rfm_lsb, sf, bw, modemcfg, op, result, args, lora_pkt,
                    packet_length, timed_out, elapsed, irq_seen, pre, prev,
                    hist >>

\* ---------------------------------------------------------- send_data
\* send_data up to its call of send_packet: the frame is assembled and
\* self.frame_counter is set to the argument
\* a send_data that stores the counter advanced by one
SendData_AdvancesCounter(a, fc, t, p) ==
    /\ Begin("send_data")
    /\ args' = [ data |-> a.data, data_length |-> a.data_length,
                 frame_counter |-> fc, timeout |-> t, port |-> p,
                 datarate |-> "", channel |-> None ]
    /\ frame_counter' = fc + 1
    /\ LET frame == BuildFrame(a.data, a.data_length, fc, ttn_config)
       IN  /\ lora_pkt' = frame.pkt
           /\ packet_length' = frame.len
    /\ log' = << >>
    /\ timed_out' = FALSE
    /\ elapsed' = 0
    /\ irq_seen' = FALSE
    /\ pc' = "standby"
    /\ UNCHANGED << ttn_config, frequencies, channel, tx_random, rfm_msb,
                    rfm_mid, rfm_lsb, sf, bw, modemcfg, reg_opmode, result,
                    hist, BUFFER >>

SendData(a, fc, t, p) ==
    /\ Begin("send_data")
    /\ args' = [ data |-> a.data, data_length |-> a.data_length,
                 frame_counter |-> fc, timeout |-> t, port |-> p,
                 datarate |-> "", channel |-> None ]
    /\ frame_counter' = fc
    /\ LET frame == BuildFrame(a.data, a.data_length, fc, ttn_config)
       IN  /\ lora_pkt' = frame.pkt
           /\ packet_length' = frame.len
    /\ log' = << >>
    /\ timed_out' = FALSE
    /\ elapsed' = 0
    /\ irq_seen' = FALSE
    /\ pc' = "standby"
    /\ UNCHANGED << ttn_config, frequencies, channel, tx_random, rfm_msb,
                    rfm_mid, rfm_lsb, sf, bw, modemcfg, reg_opmode, result,
                    hist, BUFFER >>

\* -------------------------------------------------------- send_packet
\* the call ends with an error
Raise(err) ==
    /\ pc' = "idle"
    /\ result' = err

\* the writes that open send_packet: Standby, then DIO0 mapped to TxDone
StandbyPairs ==
    << << MODE_STDBY, STDBY_VALUE >>,
       << REG_DIO_MAPPING_1, 64 >> >>

Standby ==
    /\ pc = "standby"
    /\ UNCHANGED others
    /\ log' = log \o WritesDone(StandbyPairs)
    /\ BUFFER' = BufferAfter(BUFFER, StandbyPairs)
    /\ reg_opmode' = LastMode(WritesDone(StandbyPairs), reg_opmode)
    /\ pc' = "program"
    /\ UNCHANGED << driver, hist, op, result, args, lora_pkt, packet_length,
                    timed_out, elapsed, irq_seen, pre, prev >>

\* a register loop that writes the bandwidth where the spreading factor goes
ProgramPairs_SwapsSfBw(msb, mid, lsb) ==
    << << REG_FRF_MSB, msb >>,
       << REG_FRF_MID, mid >>,
       << REG_FRF_LSB, lsb >>,
       << REG_FEI_LSB, bw >>,
       << REG_FEI_MSB, sf >>,
       << REG_MODEM_CONFIG, modemcfg >>,
       << REG_PAYLOAD_LENGTH, packet_length >>,
       << REG_FIFO_POINTER, REG_FIFO_BASE_ADDR >> >>

\* the frequency, data-rate, payload-length and FIFO-pointer writes
ProgramPairs(msb, mid, lsb) ==
    << << REG_FRF_MSB, msb >>,
       << REG_FRF_MID, mid >>,
       << REG_FRF_LSB, lsb >>,
       << REG_FEI_LSB, sf >>,
       << REG_FEI_MSB, bw >>,
       << REG_MODEM_CONFIG, modemcfg >>,
       << REG_PAYLOAD_LENGTH, packet_length >>,
       << REG_FIFO_POINTER, REG_FIFO_BASE_ADDR >> >>

\* the register loop with the frequency triple (msb, mid, lsb)
WriteRegisters(msb, mid, lsb) ==
    /\ log' = log \o WritesDone(ProgramPairs(msb, mid, lsb))
    /\ BUFFER' = BufferAfter(BUFFER, ProgramPairs(msb, mid, lsb))
    /\ IF AllBytesOk(ProgramPairs(msb, mid, lsb))
       THEN pc' = "fifo" /\ UNCHANGED result
       ELSE Raise("ValueError")

\* a register loop that takes channel 0 for no channel given
Program_FalsyChannel ==
    /\ pc = "program"
    /\ UNCHANGED others
    /\ IF channel = None \/ channel = 0
       THEN \E r \in Picks :
              /\ tx_random' = r
              /\ IF r < Len(frequencies)
                 THEN /\ rfm_lsb' = frequencies[r + 1][3]
                      /\ rfm_mid' = frequencies[r + 1][2]
                      /\ rfm_msb' = frequencies[r + 1][1]
                      /\ WriteRegisters(frequencies[r + 1][1],
                                        frequencies[r + 1][2],
                                        frequencies[r + 1][3])
                 ELSE /\ Raise("IndexError")
                      /\ UNCHANGED << rfm_msb, rfm_mid, rfm_lsb, log,
                                      BUFFER >>
       ELSE /\ WriteRegisters(rfm_msb, rfm_mid, rfm_lsb)
            /\ UNCHANGED << tx_random, rfm_msb, rfm_mid, rfm_lsb >>
    /\ UNCHANGED << ttn_config, frequencies, channel, sf, bw, modemcfg,
                    frame_counter, reg_opmode, op, args, lora_pkt,
                    packet_length, timed_out, elapsed, irq_seen, pre, prev,
                    hist >>

\* the multi-channel pick (when no channel was given) and the register loop
Program ==
    /\ pc = "program"
    /\ UNCHANGED others
    /\ IF channel = None
       THEN \E r \in Picks :
              /\ tx_random' = r
              /\ IF r < Len(frequencies)
                 THEN /\ rfm_lsb' = frequencies[r + 1][3]
                      /\ rfm_mid' = frequencies[r + 1][2]
                      /\ rfm_msb' = frequencies[r + 1][1]
                      /\ WriteRegisters(frequencies[r + 1][1],
                                        frequencies[r + 1][2],
                                        frequencies[r + 1][3])
                 ELSE /\ Raise("IndexError")
                      /\ UNCHANGED << rfm_msb, rfm_mid, rfm_lsb, log,
                                      BUFFER >>
       ELSE /\ WriteRegisters(rfm_msb, rfm_mid, rfm_lsb)
            /\ UNCHANGED << tx_random, rfm_msb, rfm_mid, rfm_lsb >>
    /\ UNCHANGED << ttn_config, frequencies, channel, sf, bw, modemcfg,
                    frame_counter, reg_opmode, op, args, lora_pkt,
                    packet_length, timed_out, elapsed, irq_seen, pre, prev,
                    hist >>

\* a FIFO loop that runs after the radio was switched to TX
FillFifo_AfterTx ==
    /\ pc = "fifo"
    /\ UNCHANGED others
    /\ log' = Append(log, WriteU8(REG_OPERATING_MODE, MODE_TX))
              \o [ i \in 1..Min(packet_length, Len(lora_pkt)) |->
                     WriteU8(REG_FIFO, lora_pkt[i]) ]
    /\ BUFFER' = LastTxn(BUFFER, log')
    /\ IF packet_length <= Len(lora_pkt)
       THEN pc' = "transmit" /\ UNCHANGED result
       ELSE Raise("IndexError")
    /\ UNCHANGED << driver, hist, reg_opmode, op, args, lora_pkt, packet_length,
                    timed_out, elapsed, irq_seen, pre, prev >>

\* a FIFO loop that writes the frame from its last byte to its first
FillFifo_Descending ==
    /\ pc = "fifo"
    /\ UNCHANGED others
    /\ log' = log \o [ i \in 1..Min(packet_length, Len(lora_pkt)) |->
                         WriteU8(REG_FIFO,
                                 lora_pkt[Min(packet_length, Len(lora_pkt))
                                          + 1 - i]) ]
    /\ BUFFER' = LastTxn(BUFFER, log')
    /\ IF packet_length <= Len(lora_pkt)
       THEN pc' = "transmit" /\ UNCHANGED result
       ELSE Raise("IndexError")
    /\ UNCHANGED << driver, hist, reg_opmode, op, args, lora_pkt, packet_length,
                    timed_out, elapsed, irq_seen, pre, prev >>

\* the FIFO loop: lora_packet[0 .. packet_length - 1], one write each
FillFifo ==
    /\ pc = "fifo"
    /\ UNCHANGED others
    /\ log' = log \o [ i \in 1..Min(packet_length, Len(lora_pkt)) |->
                         WriteU8(REG_FIFO, lora_pkt[i]) ]
    /\ BUFFER' = LastTxn(BUFFER,
                         [ i \in 1..Min(packet_length, Len(lora_pkt)) |->
                             WriteU8(REG_FIFO, lora_pkt[i]) ])
    /\ IF packet_length <= Len(lora_pkt)
       THEN pc' = "transmit" /\ UNCHANGED result
       ELSE Raise("IndexError")
    /\ UNCHANGED << driver, hist, reg_opmode, op, args, lora_pkt, packet_length,
                    timed_out, elapsed, irq_seen, pre, prev >>

\* the radio is switched to TX and the wait for TxDone starts
Transmit ==
    /\ pc = "transmit"
    /\ UNCHANGED others
    /\ log' = Append(log, WriteU8(REG_OPERATING_MODE, MODE_TX))
    /\ BUFFER' = StoreWrite(BUFFER, REG_OPERATING_MODE, MODE_TX)
    /\ reg_opmode' = MODE_TX
    /\ elapsed' = 0
    /\ timed_out' = FALSE
    /\ pc' = "poll"
    /\ UNCHANGED << driver, hist, op, result, args, lora_pkt, packet_length,
                    irq_seen, pre, prev >>

\* a wait loop that takes the time since the poll before, not since the
\* start of the wait
Poll_RestartsClock ==
    /\ pc = "poll"
    /\ UNCHANGED others
    /\ \E irq \in BOOLEAN :
         IF irq
         THEN /\ irq_seen' = TRUE
              /\ pc' = "sleep"
              /\ UNCHANGED << elapsed, timed_out >>
         ELSE \E now \in 0..MaxTick :
                /\ elapsed' = now
                /\ timed_out' = (now >= args.timeout)
                /\ pc' = IF now >= args.timeout THEN "sleep" ELSE "poll"
                /\ UNCHANGED irq_seen
    /\ UNCHANGED << driver, hist, reg_opmode, op, result, args, lora_pkt,
                    packet_length, log, pre, prev, BUFFER >>

\* a wait loop that compares the clock with the timeout also in the
\* iteration that read the pin asserted
Poll_TimeoutWins ==
    /\ pc = "poll"
    /\ UNCHANGED others
    /\ \E irq \in BOOLEAN :
         IF irq
         THEN /\ irq_seen' = TRUE
              /\ pc' = "sleep"
              /\ timed_out' = (elapsed >= args.timeout)
              /\ UNCHANGED elapsed
         ELSE \E now \in elapsed..Min(elapsed + MaxTick, MaxTimeout) :
                /\ elapsed' = now
                /\ timed_out' = (now >= args.timeout)
                /\ pc' = IF now >= args.timeout THEN "sleep" ELSE "poll"
                /\ UNCHANGED irq_seen
    /\ UNCHANGED << driver, hist, reg_opmode, op, result, args, lora_pkt,
                    packet_length, log, pre, prev, BUFFER >>

\* One iteration of the wait loop: the pin is read; when it is not asserted
\* the clock is read and compared with the timeout.
Poll ==
    /\ pc = "poll"
    /\ UNCHANGED others
    /\ \E irq \in BOOLEAN :
         IF irq
         THEN /\ irq_seen' = TRUE
              /\ pc' = "sleep"
              /\ UNCHANGED << elapsed, timed_out >>
         ELSE \E now \in elapsed..Min(elapsed + MaxTick, MaxTimeout) :
                /\ elapsed' = now
                /\ timed_out' = (now >= args.timeout)
                /\ pc' = IF now >= args.timeout THEN "sleep" ELSE "poll"
                /\ UNCHANGED irq_seen
    /\ UNCHANGED << driver, hist, reg_opmode, op, result, args, lora_pkt,
                    packet_length, log, pre, prev, BUFFER >>

\* a switch to sleep that is skipped when the wait timed out
Sleep_NotOnTimeout ==
    /\ pc = "sleep"
    /\ UNCHANGED others
    /\ IF timed_out
       THEN UNCHANGED << log, reg_opmode, BUFFER >>
       ELSE /\ log' = Append(log, WriteU8(REG_OPERATING_MODE, MODE_SLEEP))
            /\ BUFFER' = StoreWrite(BUFFER, REG_OPERATING_MODE, MODE_SLEEP)
            /\ reg_opmode' = MODE_SLEEP
    /\ pc' = "return"
    /\ UNCHANGED << driver, hist, op, result, args, lora_pkt, packet_length,
                    timed_out, elapsed, irq_seen, pre, prev >>

\* the radio is switched to sleep
Sleep ==
    /\ pc = "sleep"
    /\ UNCHANGED others
    /\ log' = Append(log, WriteU8(REG_OPERATING_MODE, MODE_SLEEP))
    /\ BUFFER' = StoreWrite(BUFFER, REG_OPERATING_MODE, MODE_SLEEP)
    /\ reg_opmode' = MODE_SLEEP
    /\ pc' = "return"
    /\ UNCHANGED << driver, hist, op, result, args, lora_pkt, packet_length,
                    timed_out, elapsed, irq_seen, pre, prev >>

\* an end of send_packet that never raises
Return_NeverRaises ==
    /\ pc = "return"
    /\ UNCHANGED others
    /\ pc' = "idle"
    /\ result' = "ok"
    /\ UNCHANGED << driver, hist, reg_opmode, op, args, lora_pkt,
                    packet_length, timed_out, elapsed, irq_seen, log, pre,
                    prev, BUFFER >>

\* an end of send_packet that forgets the data rate when the wait timed out
Return_ResetsOnTimeout ==
    /\ pc = "return"
    /\ UNCHANGED others
    /\ pc' = "idle"
    /\ result' = IF timed_out THEN "SendTimeout" ELSE "ok"
    /\ sf' = IF timed_out THEN None ELSE sf
    /\ UNCHANGED << ttn_config, frequencies, channel, tx_random, rfm_msb,
                    rfm_mid, rfm_lsb, bw, modemcfg, frame_counter,
                    reg_opmode, op, args, lora_pkt, packet_length,
                    timed_out, elapsed, irq_seen, log, pre, prev, hist,
                    BUFFER >>

\* an end of send_packet that transmits once more when the wait timed out
Return_RetriesOnce ==
    /\ pc = "return"
    /\ UNCHANGED others
    /\ IF timed_out /\ Len(log) <= packet_length + 12
       THEN pc' = "transmit" /\ UNCHANGED result
       ELSE /\ pc' = "idle"
            /\ result' = IF timed_out THEN "SendTimeout" ELSE "ok"
    /\ UNCHANGED << driver, hist, reg_opmode, op, args, lora_pkt,
                    packet_length, timed_out, elapsed, irq_seen, log, pre,
                    prev, BUFFER >>

\* send_packet returns, or raises the timeout error
Return ==
    /\ pc = "return"
    /\ UNCHANGED others
    /\ pc' = "idle"
    /\ result' = IF timed_out THEN "SendTimeout" ELSE "ok"
    /\ UNCHANGED << driver, hist, reg_opmode, op, args, lora_pkt,
                    packet_length, timed_out, elapsed, irq_seen, log, pre,
                    prev, BUFFER >>

\* ------------------------------------------------------ specification
Next ==
    \/ \E d \in DatarateArgs : SetDatarate(d)
    \/ \E c \in ChannelArgs : SetChannel(c)
    \/ \E c \in SendCalls : SendData(c[1], c[2], c[3], c[4])
    \/ Standby
    \/ Program
    \/ FillFifo
    \/ Transmit
    \/ Poll
    \/ Sleep
    \/ Return

\* a constructed driver, and no label and no sensor driver
Started == Init /\ NoOthers

Spec == Started /\ [][Next]_vars

\* send_data up to the frame it hands to send_packet, for every call of
\* FrameCalls on a freshly constructed driver
NextFrame == \E c \in FrameCalls : SendData(c[1], c[2], c[3], c[4])

SpecFrame == Started /\ [][NextFrame]_vars

\* Sends alone, with every timeout up to MaxTimeout.  send_packet is
\* straight-line code around its wait loop, so each of its steps is taken once
\* it is reached; the monotonic clock keeps advancing while the loop polls.
LiveCalls ==
    { << [ data |-> Payload(2), data_length |-> 2 ], 258, t, 1 >> :
          t \in 0..MaxTimeout }

NextLive ==
    \/ \E c \in LiveCalls : SendData(c[1], c[2], c[3], c[4])
    \/ Standby
    \/ Program
    \/ FillFifo
    \/ Transmit
    \/ Poll
    \/ Sleep
    \/ Return

\* a poll that reads a later time than the one before
ClockAdvances == Poll /\ elapsed' > elapsed

SpecLive ==
    /\ Started
    /\ [][NextLive]_vars
    /\ WF_vars(Standby)
    /\ WF_vars(Program)
    /\ WF_vars(FillFifo)
    /\ WF_vars(Transmit)
    /\ WF_vars(ClockAdvances)
    /\ WF_vars(Sleep)
    /\ WF_vars(Return)

\* the constructor alone, from a driver object not yet initialised
NextCtor ==
    \/ \E k \in CtorCalls : CtorVersion(k)
    \/ CtorRegion
    \/ CtorSetup

\* a driver object not yet initialised, and no label and no sensor driver
Unbuilt == NewDriver /\ NoOthers

SpecCtor == Unbuilt /\ [][NextCtor]_vars

\* ============================================================ properties
\* the bus transactions the properties speak of
StandbyWrite == WriteU8(REG_OPERATING_MODE, STDBY_VALUE)
TransmitWrite == WriteU8(REG_OPERATING_MODE, MODE_TX)
SleepWrite == WriteU8(REG_OPERATING_MODE, MODE_SLEEP)

IsModeWrite(e) == e[1] = SetWriteBit(REG_OPERATING_MODE)
IsFifoDataWrite(e) == e[1] = SetWriteBit(REG_FIFO)
IsLengthWrite(e) == e[1] = SetWriteBit(REG_PAYLOAD_LENGTH)
IsDatarateWrite(e) ==
    e[1] \in { SetWriteBit(REG_FEI_LSB), SetWriteBit(REG_FEI_MSB),
               SetWriteBit(REG_MODEM_CONFIG) }
IsConfigWrite(e) ==
    e[1] \in { SetWriteBit(REG_FRF_MSB), SetWriteBit(REG_FRF_MID),
               SetWriteBit(REG_FRF_LSB), SetWriteBit(REG_FEI_LSB),
               SetWriteBit(REG_FEI_MSB), SetWriteBit(REG_MODEM_CONFIG),
               SetWriteBit(REG_PAYLOAD_LENGTH), SetWriteBit(REG_FIFO_POINTER),
               SetWriteBit(REG_FIFO) }

\* the values written, in order
Values(w) == [ i \in 1..Len(w) |-> w[i][2] ]

Sending == op = "send_data"
Returned == pc = "idle" /\ op = "send_data"
\* the send is past its register loop, past its FIFO loop
PastProgram ==
    Sending /\ ( pc \in { "fifo", "transmit", "poll", "sleep", "return" }
                 \/ (pc = "idle" /\ result \in { "ok", "SendTimeout" }) )
PastFifo ==
    Sending /\ ( pc \in { "transmit", "poll", "sleep", "return" }
                 \/ (pc = "idle" /\ result \in { "ok", "SendTimeout" }) )
HasTransmitted == \E i \in 1..Len(log) : log[i] = TransmitWrite

\* C1: when send_packet has returned, normally or with an error, the radio is
\* not in Transmit: the operating-mode register does not hold the TX mode and
\* every TX write of the call is followed by a later Sleep write.
C1_NeverLeftInTransmit ==
    Returned =>
        /\ reg_opmode /= MODE_TX
        /\ \A i \in 1..Len(log) :
              log[i] = TransmitWrite =>
                  \E j \in (i + 1)..Len(log) : log[j] = SleepWrite

C1_Witness ==
    /\ Returned
    /\ result = "SendTimeout"
    /\ HasTransmitted
    /\ reg_opmode = MODE_SLEEP

\* C2: a send whose wait never read the transmit-complete pin asserted ends
\* with SendTimeout, and the Sleep write is the last transaction on the bus
\* when the error is about to be raised and when it has been raised.
C2_TimeoutAfterSleep ==
    ( Sending /\ pc \in { "return", "idle" } /\ HasTransmitted /\ ~irq_seen ) =>
        /\ timed_out
        /\ pc = "idle" => result = "SendTimeout"
        /\ log[Len(log)] = SleepWrite

C2_Witness ==
    /\ Returned
    /\ result = "SendTimeout"
    /\ ~irq_seen
    /\ elapsed = MaxTimeout
    /\ log[Len(log)] = SleepWrite

\* the three writes of a send that ran to its end
FullModeSequence == << STDBY_VALUE, MODE_TX, MODE_SLEEP >>
AfterTimeout == prev.op = "send_data" /\ prev.result = "SendTimeout"

\* C3 as claimed: after a send that failed with SendTimeout the channel mode,
\* the frequency triple and the data-rate triple are those of before the
\* send, and a following send whose every poll finds completion signalled
\* runs Standby, program, Transmit, Sleep and returns without error.
C3_ConfigKeptAndNextSendSucceeds ==
    /\ ( Returned /\ result = "SendTimeout" ) =>
          /\ Config.channel = pre.channel
          /\ Config.rfm = pre.rfm
          /\ Config.dr = pre.dr
    /\ ( Returned /\ AfterTimeout /\ result /= "SendTimeout" ) =>
          /\ result = "ok"
          /\ Values(SelectSeq(log, IsModeWrite)) = FullModeSequence

\* C3 amended: after a send that failed with SendTimeout the channel mode and
\* the data-rate triple are those of before the send; the frequency triple is
\* too in single-channel mode, and in multi-channel mode it is the table
\* entry the send picked.  A following send ends in one of three ways: it
\* returns without error, having written Standby, the registers, Transmit and
\* Sleep, whenever a poll finds completion signalled; it times out again; or,
\* in multi-channel mode only, its pick is no index of the region table.
C3_RecoversAfterTimeout ==
    /\ ( Returned /\ result = "SendTimeout" ) =>
          /\ Config.channel = pre.channel
          /\ Config.dr = pre.dr
          /\ channel /= None => Config.rfm = pre.rfm
          /\ channel = None =>
                /\ tx_random < Len(frequencies)
                /\ Config.rfm = frequencies[tx_random + 1]
    /\ ( Returned /\ AfterTimeout ) =>
          /\ log /= << >> /\ log[1] = StandbyWrite
          /\ result \in { "ok", "SendTimeout", "IndexError" }
          /\ irq_seen => result = "ok"
          /\ result = "ok" =>
                /\ Values(SelectSeq(log, IsModeWrite)) = FullModeSequence
                /\ Len(SelectSeq(log, IsConfigWrite)) = 8 + packet_length
          /\ result = "IndexError" =>
                channel = None /\ tx_random >= Len(frequencies)

C3_Witness ==
    /\ Returned
    /\ AfterTimeout
    /\ result = "ok"
    /\ channel = None
    /\ Config.rfm /= pre.rfm

\* C4: in a send that ran to its end, with success or with a timeout, the
\* writes to the operating-mode register are Standby, Transmit, Sleep, once
\* each and in this order; while a send runs they are a prefix of these.
C4_ModeSequence ==
    /\ ( Returned /\ result \in { "ok", "SendTimeout" } ) =>
          Values(SelectSeq(log, IsModeWrite)) = FullModeSequence
    /\ Sending =>
          \E n \in 0..3 :
              Values(SelectSeq(log, IsModeWrite)) = SubSeq(FullModeSequence, 1, n)

C4_Witness ==
    /\ Returned
    /\ result = "SendTimeout"
    /\ AfterTimeout
    /\ Values(SelectSeq(log, IsModeWrite)) = FullModeSequence

\* C5: in a send every write to the frequency, data-rate, payload-length and
\* FIFO-pointer registers and to the FIFO comes after the Standby write and
\* before the Transmit write.
C5_ConfigOnlyInStandby ==
    Sending =>
        \A i \in 1..Len(log) :
            IsConfigWrite(log[i]) =>
                /\ \E j \in 1..(i - 1) : log[j] = StandbyWrite
                /\ \A j \in 1..(i - 1) : log[j] /= TransmitWrite
                /\ \A j \in 1..(i - 1) : log[j] /= SleepWrite

C5_Witness ==
    /\ Sending
    /\ pc = "poll"
    /\ packet_length = PKT_BUF_LEN
    /\ Len(SelectSeq(log, IsConfigWrite)) = 8 + PKT_BUF_LEN
    /\ log[Len(log)] = TransmitWrite

\* C6: a send_data whose frame would be longer than the 64-byte buffer
\* (9 + N + 4 > 64) is rejected with PayloadTooLarge and issues no write.
C6_OversizeRejected ==
    ( Sending /\ 9 + args.data_length + 4 > PKT_BUF_LEN ) =>
        /\ log = << >>
        /\ pc = "idle" => result = "PayloadTooLarge"

\* C7: the frame send_data builds starts with 0x40, then the device address
\* in reverse stored order, then 0, then the low and the high byte of the
\* frame counter.
C7_HeaderLayout ==
    ( Sending /\ args.frame_counter \in 0..65535 ) =>
        /\ lora_pkt[1] = 64
        /\ lora_pkt[2] = ttn_config.dev_addr[4]
        /\ lora_pkt[3] = ttn_config.dev_addr[3]
        /\ lora_pkt[4] = ttn_config.dev_addr[2]
        /\ lora_pkt[5] = ttn_config.dev_addr[1]
        /\ lora_pkt[6] = 0
        /\ lora_pkt[7] + 256 * lora_pkt[8] = args.frame_counter
        /\ lora_pkt[7] \in 0..255
        /\ lora_pkt[8] \in 0..255

C7_Witness ==
    /\ Sending
    /\ args.frame_counter = 258
    /\ ttn_config.dev_addr = << 38, 1, 27, 218 >>
    /\ SubSeq(lora_pkt, 1, 8) = << 64, 218, 27, 1, 38, 0, 2, 1 >>

C9_FrameLength ==
    ( Sending /\ 9 + args.data_length + 4 <= PKT_BUF_LEN
              /\ Len(args.data) >= args.data_length ) =>
        /\ packet_length = 9 + args.data_length + 4
        /\ PastProgram =>
              Values(SelectSeq(log, IsLengthWrite)) = << 9 + args.data_length + 4 >>
        /\ PastFifo =>
              /\ Len(SelectSeq(log, IsFifoDataWrite)) = 9 + args.data_length + 4
              /\ Values(SelectSeq(log, IsFifoDataWrite))
                     = SubSeq(lora_pkt, 1, 9 + args.data_length + 4)

C9_Witness ==
    /\ Returned
    /\ result = "ok"
    /\ args.data_length = 2
    /\ Len(args.data) = 2
    /\ Len(SelectSeq(log, IsFifoDataWrite)) = 15
    /\ Values(SelectSeq(log, IsLengthWrite)) = << 15 >>

\* C10: set_datarate with a name that is not in the table fails with
\* KeyError, issues no write and leaves sf, bw and modemcfg as they were; the
\* send that follows programs the data-rate registers with that triple.
C10_UnknownDatarate ==
    /\ ( pc = "idle" /\ op = "set_datarate"
         /\ args.datarate \notin DOMAIN data_rates ) =>
          /\ result = "KeyError"
          /\ log = << >>
          /\ << sf, bw, modemcfg >> = pre.dr
    /\ ( PastProgram /\ prev.op = "set_datarate" /\ prev.result = "KeyError" ) =>
          /\ SelectSeq(log, IsDatarateWrite)
                = << WriteU8(REG_FEI_LSB, prev.dr[1]),
                     WriteU8(REG_FEI_MSB, prev.dr[2]),
                     WriteU8(REG_MODEM_CONFIG, prev.dr[3]) >>
          /\ << sf, bw, modemcfg >> = prev.dr

C10_Witness ==
    /\ Returned
    /\ result = "ok"
    /\ prev.op = "set_datarate"
    /\ prev.result = "KeyError"
    /\ prev.dr = data_rates["SF12BW125"]
    /\ SelectSeq(log, IsDatarateWrite)
          = << WriteU8(REG_FEI_LSB, 196), WriteU8(REG_FEI_MSB, 114),
               WriteU8(REG_MODEM_CONFIG, 12) >>

\* the frequency and the data-rate writes of the call, in order
IsFreqWrite(e) ==
    e[1] \in { SetWriteBit(REG_FRF_MSB), SetWriteBit(REG_FRF_MID),
               SetWriteBit(REG_FRF_LSB) }
FreqWrites == SelectSeq(log, IsFreqWrite)
DatarateWrites == SelectSeq(log, IsDatarateWrite)
\* the three frequency writes that program the table entry f
FreqTxns(f) ==
    << << REG_FRF_MSB + 128, f[1] >>,
       << REG_FRF_MID + 128, f[2] >>,
       << REG_FRF_LSB + 128, f[3] >> >>
\* the three data-rate writes that program the triple d
DatarateTxns(d) ==
    << << REG_FEI_LSB + 128, d[1] >>,
       << REG_FEI_MSB + 128, d[2] >>,
       << REG_MODEM_CONFIG + 128, d[3] >> >>

\* C11: the active data-rate triple is the one of the last set_datarate that
\* succeeded (SF7BW125 after construction); a send, at every step and
\* however it ends, leaves the triple as it found it, and once past its
\* register loop it has written exactly that triple to the data-rate registers.
C11_DatarateOfLastSet ==
    /\ << sf, bw, modemcfg >> = data_rates[last_datarate]
    /\ Sending => << sf, bw, modemcfg >> = pre.dr
    /\ PastProgram => DatarateWrites = DatarateTxns(data_rates[last_datarate])

C11_Witness ==
    /\ Returned
    /\ result = "SendTimeout"
    /\ last_datarate = "SF12BW125"
    /\ prev.op = "set_datarate"
    /\ prev.result = "KeyError"
    /\ DatarateWrites = DatarateTxns(<< 196, 114, 12 >>)

\* C12 as stated: once set_channel(i) was called with i in the table and
\* until set_channel is called again, a send that is past its register
\* loop has written entry i to the frequency registers, in either mode.
C12_ChannelHeldInEitherMode ==
    (PastProgram /\ last_channel /= None) =>
        FreqWrites = FreqTxns(frequencies[last_channel + 1])

\* C12: in single-channel mode (a channel was given at construction) a send
\* past its register loop has written the entry of the last in-range
\* set_channel to the frequency registers; in multi-channel mode it has
\* written the entry it picked itself, whatever set_channel was called with.
C12_ChannelHeldInSingleMode ==
    PastProgram =>
        /\ (channel /= None /\ last_channel /= None) =>
              /\ FreqWrites = FreqTxns(frequencies[last_channel + 1])
              /\ << rfm_msb, rfm_mid, rfm_lsb >> = frequencies[last_channel + 1]
        /\ channel = None =>
              FreqWrites = FreqTxns(frequencies[tx_random + 1])

C12_Witness ==
    /\ Returned
    /\ result = "ok"
    /\ channel /= None
    /\ last_channel /= None
    /\ last_channel /= channel
    /\ FreqWrites = FreqTxns(frequencies[last_channel + 1])

\* C13 as stated: in multi-channel mode the index a send picked is an index
\* of the region's table and the send does not end with an IndexError.
C13_PickIsTableIndex ==
    (Sending /\ channel = None /\ pc \notin { "standby", "program" }) =>
        /\ tx_random \in 0..(Len(frequencies) - 1)
        /\ pc = "idle" => result /= "IndexError"

\* a bus transaction that writes a register: address byte and value byte
IsRegisterWrite(e) == Len(e) = 2
RegisterWrites == SelectSeq(log, IsRegisterWrite)
\* the constructor is past its region chain
PastRegion == op = "init" /\ pc \in { "setup", "idle", "failed" }

\* C14 as stated: a construction whose version check passed and whose region
\* tag is none of US, AS, AU, EU, CN -- a tag that contains one of them
\* included -- fails with UnsupportedRegion.
C14_UnrecognisedRegionRejected ==
    ( PastRegion /\ ctor.version = RFM_VERSION
                 /\ ctor.country \notin { US, AS, AU, EU, CN } ) =>
        pc = "failed" /\ result = "UnsupportedRegion"

\* C15: a construction that failed, with DeviceNotDetected or with
\* UnsupportedRegion (or any other way), has issued no register write; no
\* register is written before the constructor's last step, which writes the
\* twelve baseline registers, and that step is reached only when the version
\* read the expected constant.
C15_NoWriteBeforeChecks ==
    op = "init" =>
        /\ pc /= "idle" => RegisterWrites = << >>
        /\ pc = "idle" => /\ Len(RegisterWrites) = Len(InitPairs)
                          /\ ctor.version = RFM_VERSION
                          /\ result = "ok"

C15_Witness ==
    /\ op = "init"
    /\ pc = "failed"
    /\ result = "UnsupportedRegion"
    /\ ctor.version = RFM_VERSION
    /\ log = << << REG_VERSION >> >>

\* C16 as stated: when send_data has returned, the driver's frame_counter
\* attribute has the value it had before the call.
C16_CounterAsBeforeCall ==
    Returned => frame_counter = pre.frame_counter

\* C16: send_data stores its frame_counter argument in the driver's
\* frame_counter attribute and nothing else changes the attribute: from the
\* start of the call to its end, however it ends, the attribute is the
\* argument, neither advanced nor reset.
C16_CounterIsArgument ==
    Sending => frame_counter = args.frame_counter

C16_Witness ==
    /\ Returned
    /\ result = "ok"
    /\ frame_counter = args.frame_counter
    /\ frame_counter /= pre.frame_counter

\* the transaction that writes val to the register at address
WriteTxn(address, val) == << (address % 128) + 128, val >>
\* the (register, value) pairs a send has passed to _write_u8 when its FIFO
\* loop is done
SendPairs ==
    StandbyPairs \o ProgramPairs(rfm_msb, rfm_mid, rfm_lsb)
                 \o [ i \in 1..packet_length |-> << REG_FIFO, lora_pkt[i] >> ]

\* C17: every transaction on the bus is one address byte with the high bit
\* clear (a register read) or an address byte with the high bit set followed
\* by one value byte (a register write); the constructor's transactions are
\* the version read and the twelve baseline writes, and the writes of a send
\* are, pair by pair, the address and the value passed to _write_u8,
\* whatever the buffer held before.
C17_RegisterConvention ==
    /\ \A i \in 1..Len(log) :
          \/ Len(log[i]) = 1 /\ log[i][1] \in 0..127
          \/ Len(log[i]) = 2 /\ log[i][1] \in 128..255 /\ log[i][2] \in 0..255
    /\ (op = "init" /\ pc = "idle") =>
          log = << << REG_VERSION >> >>
                \o [ i \in 1..Len(InitPairs) |->
                       WriteTxn(InitPairs[i][1], InitPairs[i][2]) ]
    /\ PastFifo =>
          SubSeq(log, 1, Len(SendPairs))
            = [ i \in 1..Len(SendPairs) |->
                  WriteTxn(SendPairs[i][1], SendPairs[i][2]) ]

C17_Witness ==
    /\ Returned
    /\ result = "ok"
    /\ Len(log) = Len(SendPairs) + 2
    /\ log[1] = << 129, 129 >>
    /\ log[Len(log)] = << 129, 0 >>
    /\ BUFFER = << 129, 0 >>

\* C18: a send that reached its wait ends with SendTimeout exactly when the
\* wait loop set timed_out, which it does exactly when no poll read the pin
\* asserted and the clock it read had reached the timeout; a send one of
\* whose polls read the pin asserted returns without error, also with
\* timeout 0 and the pin asserted at the first poll.
C18_TimeoutIffClockExpired ==
    (Returned /\ HasTransmitted) =>
        /\ result = "SendTimeout" <=> timed_out
        /\ timed_out <=> (~irq_seen /\ elapsed >= args.timeout)
        /\ irq_seen => result = "ok"

C18_Witness ==
    /\ Returned
    /\ HasTransmitted
    /\ args.timeout = 0
    /\ irq_seen
    /\ elapsed = 0
    /\ result = "ok"

\* C19: a send that has started ends: whatever the pin reads and whatever
\* the timeout (0 included), as long as the clock keeps advancing the wait
\* loop is left and the call returns or raises.
C19_SendTerminates ==
    (op = "send_data" /\ pc /= "idle") ~> (pc = "idle")

C19_Witness ==
    /\ Returned
    /\ result = "SendTimeout"
    /\ ~irq_seen
    /\ args.timeout = MaxTimeout
    /\ elapsed = MaxTimeout

\* the plaintext send_data encrypts and the ciphertext it put in the frame
Plaintext == PySlice(args.data, 0, args.data_length)
Ciphertext == SubSeq(lora_pkt, 10, 9 + args.data_length)
\* the payload cipher under the driver's credentials and the call's counter
Cipher(text) ==
    Encrypt(text, ttn_config.dev_addr, ttn_config.app_key, args.frame_counter)

MaxNow == 2

\* largest max_characters tried
MaxWidth == 3

\* adafruit_ticks.ticks_less: ticks1 is before ticks2 on the wrapping
\* millisecond counter
TicksLess(ticks1, ticks2) ==
    ((ticks1 - ticks2 + 2^28) % 2^29) - 2^28 < 0

\* a trailing space appended whatever the width
Pad_IgnoresWidth(text, max_characters) ==
    IF text # << >> /\ text[Len(text)] # " "
    THEN Append(text, " ")
    ELSE text

\* the space __init__ and the full_text setter append to a text that does
\* not fit, so that its end and its start are apart when it wraps
Pad(text, max_characters) ==
    IF text # << >> /\ text[Len(text)] # " " /\ Len(text) > max_characters
    THEN Append(text, " ")
    ELSE text

\* current_index setter
SetCurrentIndex(s, new_index) ==
    [ s EXCEPT !.current_index =
          IF s.full_text # << >> THEN new_index % Len(s.full_text) ELSE 0 ]

\* the characters update() shows when the text does not fit
ShowingString(s) ==
    IF s.current_index + s.max_characters <= Len(s.full_text)
    THEN PySlice(s.full_text, s.current_index,
                 s.current_index + s.max_characters)
    ELSE PySlice(s.full_text, s.current_index, Len(s.full_text))
         \o PySlice(s.full_text, 0,
                    (s.current_index + s.max_characters) % Len(s.full_text))

\* update() takes a frame when it is forced or the last one is older than
\* animate_time
FrameDue(s, force, now) ==
    force \/ TicksLess(s.last_animate_time + s.animate_time, now)

\* update(force) with the clock reading now
Update(s, force, now) ==
    IF ~FrameDue(s, force, now)
    THEN s
    ELSE IF Len(s.full_text) <= s.max_characters
    THEN [ s EXCEPT !.text = s.full_text, !.last_animate_time = now ]
    ELSE [ SetCurrentIndex([ s EXCEPT !.text = ShowingString(s) ],
                           s.current_index + 1)
             EXCEPT !.last_animate_time = now ]

\* the label as the full_text setter has it when it calls update(True)
FullTextStored(s, new_text) ==
    SetCurrentIndex([ s EXCEPT !.full_text = Pad(new_text, s.max_characters) ],
                    0)

\* full_text setter (the text setter assigns full_text)
SetFullText(s, new_text, now) ==
    IF Pad(new_text, s.max_characters) # s.full_text
    THEN Update(FullTextStored(s, new_text), TRUE, now)
    ELSE s

\* max_characters setter
SetMaxCharacters(s, new_max_characters, now) ==
    IF new_max_characters # s.max_characters
    THEN SetFullText([ s EXCEPT !.max_characters = new_max_characters ],
                     s.full_text, now)
    ELSE s

\* the fields __init__ has stored when it calls update(True)
Constructed(max_characters, text, animate_time, current_index) ==
    [ animate_time |-> animate_time,
      current_index |-> current_index,
      last_animate_time |-> -1,
      max_characters |-> max_characters,
      full_text |-> Pad(text, max_characters),
      text |-> << >> ]

\* ----------------------------------------------------- label inputs
LabelTexts ==
    { << >>, << "a" >>, << "a", "b" >>, << "a", " " >>,
      << "a", "b", "c" >>, << "a", "b", "c", "d" >> }

Widths == 1..MaxWidth
Nows == 0..MaxNow
AnimateTimes == { 1 }
StartIndexes == { 0, 1, 7 }
NewIndexes == { -1, 0, 2, 7 }

\* ---------------------------------------------------- label actions
\* what is remembered of a call: its name, the text assigned, the label as
\* it was when the call's update() began and whether that update took a
\* frame
Called(name, text, before, frame) ==
    [ op |-> name, text |-> text, before |-> before, frame |-> frame ]

\* ScrollingLabel(font, max_characters, text, animate_time, current_index)
NewLabel ==
    \E m \in Widths, t \in LabelTexts, a \in AnimateTimes,
       i \in StartIndexes, now \in Nows :
        /\ label = Update(Constructed(m, t, a, i), TRUE, now)
        /\ label_call = Called("init", t, Constructed(m, t, a, i), TRUE)

\* the radio is left as a driver object not yet initialised
LabelOnly == UNCHANGED << radio, mpu, mpu_call >>

LabelUpdate(force, now) ==
    /\ label' = Update(label, force, now)
    /\ label_call' = Called("update", << >>, label,
                            FrameDue(label, force, now))
    /\ LabelOnly

LabelSetCurrentIndex(new_index) ==
    /\ label' = SetCurrentIndex(label, new_index)
    /\ label_call' = Called("current_index", << >>, label, FALSE)
    /\ LabelOnly

LabelSetText(new_text, now) ==
    /\ label' = SetFullText(label, new_text, now)
    /\ label_call' =
           Called("text", new_text, FullTextStored(label, new_text),
                  Pad(new_text, label.max_characters) # label.full_text)
    /\ LabelOnly

LabelSetMaxCharacters(new_max_characters, now) ==
    /\ label' = SetMaxCharacters(label, new_max_characters, now)
    /\ label_call' =
           Called("max_characters", << >>,
                  FullTextStored([ label EXCEPT !.max_characters =
                                                    new_max_characters ],
                                 label.full_text),
                  /\ new_max_characters # label.max_characters
                  /\ Pad(label.full_text, new_max_characters)
                         # label.full_text)
    /\ LabelOnly

NextLabel ==
    \/ \E force \in BOOLEAN, now \in Nows : LabelUpdate(force, now)
    \/ \E i \in NewIndexes : LabelSetCurrentIndex(i)
    \/ \E t \in LabelTexts, now \in Nows : LabelSetText(t, now)
    \/ \E m \in Widths, now \in Nows : LabelSetMaxCharacters(m, now)

\* every call on a label, from every construction
LabelBuilt ==
    /\ NewLabel
    /\ NewDriver
    /\ BUFFER = Zeros(2)
    /\ mpu = [ pc |-> "none" ]
    /\ mpu_call = [ op |-> "none" ]

SpecLabel == LabelBuilt /\ [][NextLabel]_vars

\* ============================================================ MPU6050
\* register addresses and the device id
MPU6050_DEVICE_ID == 104
MPU6050_CONFIG == 26
MPU6050_GYRO_CONFIG == 27
MPU6050_ACCEL_CONFIG == 28
MPU6050_SIG_PATH_RESET == 104
MPU6050_PWR_MGMT_1 == 107

\* the registers of the device the driver reads and writes
Registers ==
    { MPU6050_CONFIG, MPU6050_GYRO_CONFIG, MPU6050_ACCEL_CONFIG,
      MPU6050_SIG_PATH_RESET, MPU6050_PWR_MGMT_1 }

\* a | b on non-negative integers
RECURSIVE BitOr(_, _)
BitOr(a, b) ==
    IF a = 0 THEN b
    ELSE IF b = 0 THEN a
    ELSE (IF a % 2 = 1 \/ b % 2 = 1 THEN 1 ELSE 0)
         + 2 * BitOr(a \div 2, b \div 2)

\* RWBits(num_bits, register_address, lowest_bit) and RWBit(register, bit)
RWBits(num_bits, register_address, lowest_bit) ==
    [ num_bits |-> num_bits, register |-> register_address,
      lowest_bit |-> lowest_bit ]

\* the bit fields of the driver
clksel == RWBits(3, MPU6050_PWR_MGMT_1, 0)
reset == RWBits(1, MPU6050_PWR_MGMT_1, 7)
signal_path_reset == RWBits(3, MPU6050_SIG_PATH_RESET, 3)
gyro_range == RWBits(2, MPU6050_GYRO_CONFIG, 3)
accel_range == RWBits(2, MPU6050_ACCEL_CONFIG, 3)
filter_bandwidth == RWBits(2, MPU6050_CONFIG, 3)
sleep == RWBits(1, MPU6050_PWR_MGMT_1, 6)

\* RWBits.__get__: the field's bits of the register byte
GetBits(byte, field) ==
    (byte \div 2^field.lowest_bit) % 2^field.num_bits

\* the register byte with the field's bits cleared
ClearBits(byte, field) ==
    byte - GetBits(byte, field) * 2^field.lowest_bit

\* RWBits.__set__: the byte written back, the field's bits cleared and the
\* shifted value or-ed in
PutBits(byte, field, value) ==
    BitOr(ClearBits(byte, field), value * 2^field.lowest_bit)

\* the registers after the driver assigned value to field
Assign(regs, field, value) ==
    [ regs EXCEPT ![field.register] = PutBits(@, field, value) ]

\* the bus write of that assignment
Written(regs, field, value) ==
    << field.register, PutBits(regs[field.register], field, value) >>

\* the registers after a device reset: all 0 but PWR_MGMT_1, which has the
\* sleep bit set
DeviceDefaults ==
    [ r \in Registers |-> IF r = MPU6050_PWR_MGMT_1 THEN 2^sleep.lowest_bit
                          ELSE 0 ]

\* the divisors of the acceleration scale, by range
AccelDivisors == << 16384, 8192, 4096, 2048 >>

\* ------------------------------------------------------- MPU inputs
\* what the device holds when the driver is constructed: its defaults, or
\* what an earlier use left
StartRegisters ==
    { DeviceDefaults,
      [ r \in Registers |->
          IF r = MPU6050_PWR_MGMT_1 THEN 1
          ELSE IF r = MPU6050_SIG_PATH_RESET THEN 0
          ELSE 3 * 2^3 + 2^5 ] }

DeviceIds == { MPU6050_DEVICE_ID, 0 }
RangeArgs == -1..4
BandwidthArgs == -1..7

\* ------------------------------------------------------ MPU actions
\* the driver object before __init__
NewMpu ==
    \E regs \in StartRegisters :
        /\ mpu = [ pc |-> "new", regs |-> regs, accel_scale |-> None,
                   in_init |-> FALSE, reset_called |-> FALSE ]
        /\ mpu_call = [ op |-> "none", value |-> None, result |-> "ok",
                        before |-> regs, scale |-> None, writes |-> << >> ]

MpuOnly == UNCHANGED << radio, label, label_call >>

\* a call begins
MpuCalled(name, value) ==
    [ op |-> name, value |-> value, result |-> "ok", before |-> mpu.regs,
      scale |-> mpu.accel_scale, writes |-> << >> ]

\* __init__ up to the wait loop of reset(): the device id is checked and the
\* reset bit is set
MpuInit(device_id) ==
    /\ mpu.pc = "new"
    /\ IF device_id /= MPU6050_DEVICE_ID
       THEN /\ mpu' = [ mpu EXCEPT !.pc = "failed" ]
            /\ mpu_call' = [ MpuCalled("init", None)
                               EXCEPT !.result = "RuntimeError" ]
       ELSE /\ mpu' = [ mpu EXCEPT !.pc = "reset_wait",
                                   !.in_init = TRUE,
                                   !.regs = Assign(@, reset, 1) ]
            /\ mpu_call' = [ MpuCalled("init", None)
                               EXCEPT !.writes =
                                          << Written(mpu.regs, reset, 1) >> ]
    /\ MpuOnly

\* reset() called on a constructed driver, up to its wait loop
MpuReset ==
    /\ mpu.pc = "idle"
    /\ mpu' = [ mpu EXCEPT !.pc = "reset_wait",
                           !.reset_called = TRUE,
                           !.regs = Assign(@, reset, 1) ]
    /\ mpu_call' = [ MpuCalled("reset", None)
                       EXCEPT !.writes = << Written(mpu.regs, reset, 1) >> ]
    /\ MpuOnly

\* One pass of reset()'s wait loop, and what follows the loop when it ends.
\* The device may have finished its reset by the time the bit is read: its
\* registers then hold their defaults, the reset bit is clear and the loop
\* ends.  What follows is an assignment to a local name, no register write.
MpuResetWait(finished) ==
    /\ mpu.pc = "reset_wait"
    /\ LET regs == IF finished THEN DeviceDefaults ELSE mpu.regs
       IN  mpu' = [ mpu EXCEPT
                      !.regs = regs,
                      !.pc = IF GetBits(regs[reset.register], reset) = 1
                             THEN "reset_wait"
                             ELSE IF mpu.in_init THEN "configure"
                             ELSE "idle" ]
    /\ UNCHANGED mpu_call
    /\ MpuOnly

\* the assignments of __init__ after reset(), in program order
ConfigureAssignments ==
    << << filter_bandwidth, 0 >>,
       << gyro_range, 1 >>,
       << accel_range, 0 >>,
       << clksel, 1 >>,
       << sleep, 0 >> >>

\* the registers after the first n of those assignments
RECURSIVE Configured(_, _)
Configured(regs, n) ==
    IF n = 0 THEN regs
    ELSE Assign(Configured(regs, n - 1),
                ConfigureAssignments[n][1], ConfigureAssignments[n][2])

\* __init__ after reset(): the defaults are assigned and the scale is cached
\* for the range read back from the device
MpuConfigure ==
    /\ mpu.pc = "configure"
    /\ mpu' = [ mpu EXCEPT
                  !.pc = "idle",
                  !.in_init = FALSE,
                  !.regs = Configured(mpu.regs, Len(ConfigureAssignments)),
                  !.accel_scale =
                      AccelDivisors[
                          GetBits(Configured(mpu.regs, 3)[accel_range.register],
                                  accel_range) + 1] ]
    /\ mpu_call' =
           [ mpu_call EXCEPT
               !.writes = @ \o
                   [ n \in 1..Len(ConfigureAssignments) |->
                       Written(Configured(mpu.regs, n - 1),
                               ConfigureAssignments[n][1],
                               ConfigureAssignments[n][2]) ] ]
    /\ MpuOnly

\* an accelerometer_range setter that leaves the cached scale alone
MpuSetAccelerometerRange_KeepsScale(value) ==
    /\ mpu.pc = "idle"
    /\ IF value < 0 \/ value > 3
       THEN /\ mpu_call' = [ MpuCalled("accelerometer_range", value)
                               EXCEPT !.result = "ValueError" ]
            /\ UNCHANGED mpu
       ELSE /\ mpu' = [ mpu EXCEPT
                          !.regs = Assign(@, accel_range, value) ]
            /\ mpu_call' = [ MpuCalled("accelerometer_range", value)
                               EXCEPT !.writes =
                                   << Written(mpu.regs, accel_range, value) >> ]
    /\ MpuOnly

\* accelerometer_range setter
MpuSetAccelerometerRange(value) ==
    /\ mpu.pc = "idle"
    /\ IF value < 0 \/ value > 3
       THEN /\ mpu_call' = [ MpuCalled("accelerometer_range", value)
                               EXCEPT !.result = "ValueError" ]
            /\ UNCHANGED mpu
       ELSE /\ mpu' = [ mpu EXCEPT
                          !.regs = Assign(@, accel_range, value),
                          !.accel_scale = AccelDivisors[value + 1] ]
            /\ mpu_call' = [ MpuCalled("accelerometer_range", value)
                               EXCEPT !.writes =
                                   << Written(mpu.regs, accel_range, value) >> ]
    /\ MpuOnly

\* filter_bandwidth setter
MpuSetFilterBandwidth(value) ==
    /\ mpu.pc = "idle"
    /\ IF value < 0 \/ value > 6
       THEN /\ mpu_call' = [ MpuCalled("filter_bandwidth", value)
                               EXCEPT !.result = "ValueError" ]
            /\ UNCHANGED mpu
       ELSE /\ mpu' = [ mpu EXCEPT
                          !.regs = Assign(@, filter_bandwidth, value) ]
            /\ mpu_call' = [ MpuCalled("filter_bandwidth", value)
                               EXCEPT !.writes =
                                   << Written(mpu.regs, filter_bandwidth,
                                              value) >> ]
    /\ MpuOnly

NextMpu ==
    \/ \E id \in DeviceIds : MpuInit(id)
    \/ MpuReset
    \/ \E finished \in BOOLEAN : MpuResetWait(finished)
    \/ MpuConfigure
    \/ \E v \in RangeArgs : MpuSetAccelerometerRange(v)
    \/ \E v \in BandwidthArgs : MpuSetFilterBandwidth(v)

\* the construction of a driver and every call on it
MpuUnbuilt ==
    /\ NewMpu
    /\ NewDriver
    /\ BUFFER = Zeros(2)
    /\ label = [ op |-> "none" ]
    /\ label_call = [ op |-> "none" ]

SpecMpu == MpuUnbuilt /\ [][NextMpu]_vars

\* ------------------------------------------- ScrollingLabel properties
\* the n characters of text from index i on, wrapping from its end to its
\* start
Window(text, i, n) ==
    [ k \in 1..n |-> text[((i + k - 1) % Len(text)) + 1] ]

\* the last call's update() took a frame
FrameTaken == label_call.frame

\* current_index is an index of the full text, 0 when there is none
ValidIndex(s) ==
    IF s.full_text = << >>
    THEN s.current_index = 0
    ELSE s.current_index \in 0..(Len(s.full_text) - 1)

\* C21: every animation frame of a text longer than max_characters displays
\* exactly max_characters characters, the cyclic window of the full text
\* that starts at current_index, and then advances current_index by one
\* modulo the length of the full text; a text that fits is displayed whole
\* and current_index stays.
C21_FrameShowsWindow ==
    FrameTaken =>
        LET b == label_call.before
        IN  IF Len(b.full_text) > b.max_characters
            THEN /\ Len(label.text) = b.max_characters
                 /\ label.text =
                        Window(b.full_text, b.current_index, b.max_characters)
                 /\ label.current_index =
                        (b.current_index + 1) % Len(b.full_text)
            ELSE /\ label.text = b.full_text
                 /\ label.current_index = b.current_index

\* --------------------------------------------------- FIFO properties
\* the value the send wrote to the payload-length register
LengthWritten == SelectSeq(log, IsLengthWrite)[1][2]

\* the bus transaction p of the send sets the FIFO pointer to the FIFO base
IsPointerToBase(p) ==
    log[p] = << SetWriteBit(REG_FIFO_POINTER), REG_FIFO_BASE_ADDR >>

\* C22: within a send the FIFO pointer register is set to the FIFO base
\* address before the first FIFO data write; the frame bytes are then written
\* to the FIFO one per transaction in ascending index order 0..L-1, L being
\* the value written to the payload-length register, and no other register
\* write comes between the FIFO data writes.
C22_FifoFilledInOrder ==
    PastFifo =>
        /\ Len(SelectSeq(log, IsLengthWrite)) = 1
        /\ LengthWritten = packet_length
        /\ \E p \in 1..Len(log) :
              /\ IsPointerToBase(p)
              /\ p + LengthWritten <= Len(log)
              /\ \A i \in 1..LengthWritten :
                    log[p + i] = << SetWriteBit(REG_FIFO), lora_pkt[i] >>
              /\ \A j \in 1..Len(log) :
                    IsFifoDataWrite(log[j]) =>
                        j \in (p + 1)..(p + LengthWritten)

C22_Witness ==
    /\ pc = "transmit"
    /\ LengthWritten = 9 + MaxPayload + 4
    /\ Len(SelectSeq(log, IsFifoDataWrite)) = 9 + MaxPayload + 4
    /\ log[Len(log)] = << SetWriteBit(REG_FIFO), lora_pkt[packet_length] >>

\* ---------------------------------------------- integrity-code properties
\* the integrity code of the first length bytes of packet under the driver's
\* credentials and the call's counter
Mic(packet, length) ==
    CalculateMic(packet, length, ttn_config.dev_addr, ttn_config.net_key,
                 args.frame_counter)

\* C23: in send_data the integrity code is computed after the payload has
\* been encrypted and placed in the frame, over exactly the first 9 + N bytes
\* of the frame (the 9 header bytes followed by the N ciphertext bytes) with
\* length argument 9 + N, and its 4 bytes are placed at offsets 9 + N to
\* 9 + N + 3 as the last bytes of the transmitted frame.
C23_MicOverHeaderAndCiphertext ==
    (Sending /\ Len(args.data) >= args.data_length) =>
        LET N == args.data_length
            covered == Header(ttn_config.dev_addr, args.frame_counter)
                       \o Cipher(Plaintext)
        IN  /\ SubSeq(lora_pkt, 1, 9 + N) = covered
            /\ SubSeq(lora_pkt, 10 + N, 13 + N) = Mic(covered, 9 + N)
            /\ packet_length = 9 + N + 4

C23_Witness ==
    /\ Sending
    /\ args.data = Payload(2)
    /\ args.data_length = 2
    /\ packet_length = 15
    /\ SubSeq(lora_pkt, 12, 15) = Mic(SubSeq(lora_pkt, 1, 11), 11)
    /\ SubSeq(lora_pkt, 12, 15)
           # Mic(Header(ttn_config.dev_addr, args.frame_counter) \o Zeros(2),
                 11)

\* C24: the frame carries the frame counter as an unsigned 16-bit value: for
\* every non-negative counter c byte 6 is c mod 256 and byte 7 is
\* (c div 256) mod 256, so the two bytes encode c mod 65536 and are the same
\* for counters that are equal modulo 65536; a counter of 65536 or more
\* raises no error.
C24_CounterModulo65536 ==
    Sending =>
        LET c == args.frame_counter
        IN  /\ lora_pkt[7] = c % 256
            /\ lora_pkt[8] = (c \div 256) % 256
            /\ lora_pkt[7] + 256 * lora_pkt[8] = c % 65536
            /\ lora_pkt[7] = (c % 65536) % 256
            /\ lora_pkt[8] = (c % 65536) \div 256
            /\ pc = "standby"

C24_Witness ==
    /\ Sending
    /\ args.frame_counter = 65536 + 5
    /\ lora_pkt[7] = 5
    /\ lora_pkt[8] = 0
    /\ pc = "standby"

\* --------------------------------------------- single-channel properties
\* the driver was constructed with a channel number
SingleChannel == channel /= None
Triple == << rfm_msb, rfm_mid, rfm_lsb >>

\* C25 as stated: every send of a driver constructed with channel k, k = 0
\* included, programs the frequency registers with entry k of the region
\* table.
C25_EverySendProgramsCtorEntry ==
    (PastProgram /\ SingleChannel) =>
        FreqWrites = FreqTxns(frequencies[channel + 1])

\* C25: a driver constructed with a channel number k, k = 0 included, is in
\* single-channel mode: no step picks a random channel, no send changes the
\* stored frequency triple, and every send programs the frequency registers
\* with the stored triple, which is entry k of the region table until
\* set_channel stores another entry and then the entry of the last
\* set_channel.
C25_SingleChannelKept ==
    [][ SingleChannel' =>
          /\ tx_random' = tx_random
          /\ Sending' => Triple' = Triple
          /\ PastProgram' =>
                /\ FreqWrites' = FreqTxns(Triple')
                /\ last_channel' = channel' =>
                      Triple' = frequencies'[channel' + 1]
                /\ last_channel' /= None =>
                      Triple' = frequencies'[last_channel' + 1] ]_vars

C25_Witness ==
    /\ Returned
    /\ result = "ok"
    /\ channel = 0
    /\ last_channel = 0
    /\ prev.op = "send_data"
    /\ FreqWrites = FreqTxns(frequencies[1])
    /\ Triple = frequencies[1]

\* C26: in every reachable state, from any constructor arguments and after
\* any sequence of update calls and of assignments to current_index,
\* full_text/text and max_characters, current_index is a valid index of the
\* full text: 0 <= current_index < len(full_text) when the full text is not
\* empty, and 0 when it is empty.
C26_IndexAlwaysValid == ValidIndex(label)

\* the last call assigned label.text (or label.full_text)
TextAssigned == label_call.op = "text"

\* C27 as stated: after assigning label.text = t, for every string t and
\* every max_characters, reading label.text returns exactly t.
C27_TextReadsAsAssigned ==
    TextAssigned => label.full_text = label_call.text

\* C27: after assigning label.text = t, reading label.text returns t, except
\* that a non-empty t that does not end in a space and is longer than
\* max_characters reads back as t followed by one space.
C27_TextReadsPadded ==
    TextAssigned =>
        LET t == label_call.text
        IN  label.full_text =
                IF /\ t /= << >>
                   /\ t[Len(t)] /= " "
                   /\ Len(t) > label.max_characters
                THEN t \o << " " >>
                ELSE t

C27_Witness ==
    /\ TextAssigned
    /\ label_call.text = << "a", "b", "c" >>
    /\ label.max_characters = 2
    /\ label.full_text = << "a", "b", "c", " " >>

\* ----------------------------------------------------- MPU6050 properties
\* reset() has returned: called by __init__, or on a constructed driver
ResetReturned ==
    \/ mpu_call.op = "init" /\ mpu.pc \in { "configure", "idle" }
    \/ mpu_call.op = "reset" /\ mpu.pc = "idle"

\* write i of the last call stores value in field
WritesField(i, field, value) ==
    /\ mpu_call.writes[i][1] = field.register
    /\ GetBits(mpu_call.writes[i][2], field) = value

\* C28: reset() sets the device-reset bit, waits until the device has
\* cleared it, and then writes 0b111 to the signal-path-reset register field
\* so that all sensor signal paths are reset; the call has ended once the
\* device cleared the reset bit.
C28_ResetWritesSignalPaths ==
    /\ mpu.pc = "reset_wait" => GetBits(mpu.regs[reset.register], reset) = 1
    /\ ResetReturned =>
          /\ WritesField(1, reset, 1)
          /\ \E i \in 2..Len(mpu_call.writes) :
                WritesField(i, signal_path_reset, 7)

\* the value the last call assigned is one the setter accepts
Accepted(lo, hi) == mpu_call.value \in lo..hi

\* the last call left the registers and the cached scale as they were
NothingChanged ==
    /\ mpu.regs = mpu_call.before
    /\ mpu.accel_scale = mpu_call.scale
    /\ mpu_call.writes = << >>

\* C29: after filter_bandwidth = v with v in 0..6, reading filter_bandwidth
\* returns v and no other bit of the configuration register (and no other
\* register) has changed; a value outside 0..6 is rejected with ValueError
\* and leaves the registers unchanged.
C29_FilterBandwidthRoundTrip ==
    mpu_call.op = "filter_bandwidth" =>
        IF Accepted(0, 6)
        THEN /\ mpu_call.result = "ok"
             /\ GetBits(mpu.regs[MPU6050_CONFIG], filter_bandwidth)
                    = mpu_call.value
             /\ ClearBits(mpu.regs[MPU6050_CONFIG], filter_bandwidth)
                    = ClearBits(mpu_call.before[MPU6050_CONFIG],
                                filter_bandwidth)
             /\ \A r \in Registers \ { MPU6050_CONFIG } :
                    mpu.regs[r] = mpu_call.before[r]
        ELSE /\ mpu_call.result = "ValueError"
             /\ NothingChanged

\* the range the device holds in its range register field
StoredRange == (mpu.regs[MPU6050_ACCEL_CONFIG] \div 8) % 4

\* C30: after construction and after any sequence of assignments to
\* accelerometer_range, accepted or rejected, the cached acceleration scale
\* is that of the range stored in the range register field (divisor 16384,
\* 8192, 4096, 2048 for range 0, 1, 2, 3); an assignment outside 0..3 raises
\* ValueError and changes neither the range nor the scale.
C30_ScaleMatchesRange ==
    (mpu.pc = "idle" /\ ~mpu.reset_called) =>
        /\ mpu.accel_scale = CASE StoredRange = 0 -> 16384
                               [] StoredRange = 1 -> 8192
                               [] StoredRange = 2 -> 4096
                               [] StoredRange = 3 -> 2048
        /\ mpu_call.op = "accelerometer_range" =>
              IF Accepted(0, 3)
              THEN mpu_call.result = "ok" /\ StoredRange = mpu_call.value
              ELSE mpu_call.result = "ValueError" /\ NothingChanged

C30_Witness ==
    /\ mpu.pc = "idle"
    /\ ~mpu.reset_called
    /\ mpu_call.op = "accelerometer_range"
    /\ mpu_call.value = 4
    /\ mpu_call.result = "ValueError"
    /\ StoredRange = 3
    /\ mpu.accel_scale = 2048

====
